---- MODULE Spec2Model ----
(***************************************************************************)
(* A model of the round-driving simulation engine of CitySim               *)
(* (src/abm_simulation): the Environment, the InteractionEngine, the       *)
(* PolicyEngine, the run logger and the driver run_simulation.             *)
(*                                                                         *)
(* Numbers.  Python floats are modelled in fixed point: the real r is the  *)
(* integer r * One (One = 1000), products and quotients round toward       *)
(* minus infinity.  Random draws are inputs chosen with \E.                *)
(***************************************************************************)
EXTENDS Integers, Sequences, FiniteSets, TLC

VARIABLES
    env,            \* the Environment instance (its fields)
    env_calls,      \* number of Environment.update calls made so far
    policy_calls,   \* number of apply_policy_intervention calls made so far
    check_pre,      \* emergency flag and availability on entry to the last
                    \* _check_emergency_events, and whether it drew "enter";
                    \* the interactions, qualities, infrastructure levels and
                    \* drift draws of the last update
    agents,         \* the roster: government, enterprises, residents
    rules_config,   \* InteractionEngine.rules
    history_len,    \* len(InteractionEngine.interaction_history)
    decisions,      \* the decisions handed to the last InteractionEngine.process
    last_interactions,  \* the list the last InteractionEngine.process returned
    process_raised, \* whether the last InteractionEngine.process raised
    process_calls,  \* number of InteractionEngine.process calls made so far
    process_args,   \* the agents as the last InteractionEngine.process found them
    applied_policies,   \* PolicyEngine.applied_policies
    policy_history,     \* PolicyEngine.policy_history
    apply_calls,    \* number of PolicyEngine.apply calls made so far
    apply_args,     \* the arguments of the last PolicyEngine.apply, as it found them
    apply_raised,   \* whether the last PolicyEngine.apply raised
    pc,             \* run_simulation: the statement it is about to execute
    round_num,      \* run_simulation: the loop variable
    simulation_records, \* run_simulation: the list of round records
    interaction_history,    \* every agent's interaction_history
    log_data,       \* SimulationLogger.log_data
    results,        \* what run_simulation returned
    call,           \* a metrics calculator called on its own: name, argument, value
    num_rounds,     \* run_simulation: its parameter num_rounds
    rng,            \* the generator of the random module, shared by every caller
    provider,       \* the Decision Provider: what it answers to each agent
    trace           \* history of the run: what happened, for the properties

envVars == <<env, env_calls, policy_calls, check_pre>>
agentVars == <<agents>>
engineVars == <<rules_config, history_len, decisions, last_interactions,
                process_raised, process_calls, process_args>>
policyVars == <<applied_policies, policy_history, apply_calls, apply_args, apply_raised>>

driverVars == <<pc, round_num, simulation_records, interaction_history, log_data,
                results, call, trace>>

\* what surrounds a run: its length, the random generator, the provider
runVars == <<num_rounds, rng, provider>>

vars == <<envVars, agentVars, engineVars, policyVars, driverVars, runVars>>

----------------------------------------------------------------------------
(* Fixed-point arithmetic *)

One == 1000
Hundred == 100 * One

Min(a, b) == IF a < b THEN a ELSE b
Max(a, b) == IF a > b THEN a ELSE b

\* x * (num / den) for a float factor num/den
Scale(x, num, den) == (x * num) \div den

RECURSIVE Repeat(_, _)
Repeat(x, n) == IF n = 0 THEN <<>> ELSE <<x>> \o Repeat(x, n - 1)

----------------------------------------------------------------------------
(* Interaction records.  A key the record does not carry is "none". *)

Interaction(type, participants, outcome, area, service_type) ==
    [type |-> type, participants |-> participants, outcome |-> outcome,
     area |-> area, service_type |-> service_type]

\* dict.get(key, default)
Get(value, default) == IF value = "none" THEN default ELSE value

----------------------------------------------------------------------------
(* Environment *)

QualityAreas == {"core_area", "urban_rural_fringe", "rural"}

\* Environment.__init__
EnvironmentInit(config) ==
    [digital_infrastructure |-> config.digital_infrastructure,
     physical_infrastructure |-> config.physical_infrastructure,
     service_availability |-> One,
     system_load |-> One \div 2,
     emergency_status |-> FALSE,
     update_count |-> 0,
     service_quality |-> [a \in QualityAreas |->
         CASE a = "core_area" -> Scale(One, 9, 10)
           [] a = "urban_rural_fringe" -> Scale(One, 7, 10)
           [] OTHER -> Scale(One, 6, 10)],
     infrastructure_utilization |->
         [digital |-> Scale(One, 6, 10), physical |-> Scale(One, 7, 10)]]

\* Environment.get_state: a copy of every field
get_state(e) == e

AssumedCapacity == 50

IsLoadRequest(i) == i.type \in {"service_request", "data_request", "service_use"}

_update_system_load(e, interactions) ==
    LET service_requests == Len(SelectSeq(interactions, IsLoadRequest))
        load_factor == Min(One, (service_requests * One) \div AssumedCapacity)
        smoothed == Scale(e.system_load, 7, 10) + Scale(load_factor, 3, 10)
    IN  [e EXCEPT !.system_load = Max(0, Min(One, smoothed))]

IsSystemFailure(i) == i.outcome = "system_failure"

\* _update_service_availability without the final clamp to [0, 1]
_update_service_availability_unclamped(e, interactions) ==
    LET base == IF e.system_load > Scale(One, 8, 10) THEN -Scale(One, 5, 100)
                ELSE IF e.system_load < Scale(One, 3, 10) THEN Scale(One, 2, 100)
                ELSE 0
        failures == Len(SelectSeq(interactions, IsSystemFailure))
        availability_change == base - Scale(One, 1, 10) * failures
    IN  [e EXCEPT !.service_availability = e.service_availability + availability_change]

_update_service_availability(e, interactions) ==
    LET base == IF e.system_load > Scale(One, 8, 10) THEN -Scale(One, 5, 100)
                ELSE IF e.system_load < Scale(One, 3, 10) THEN Scale(One, 2, 100)
                ELSE 0
        failures == Len(SelectSeq(interactions, IsSystemFailure))
        availability_change == base - Scale(One, 1, 10) * failures
    IN  [e EXCEPT !.service_availability =
             Max(0, Min(One, e.service_availability + availability_change))]

\* enter: the first random.random() < 0.02; resolve: the second random.random() < 0.3
_check_emergency_events(e, enter, resolve) ==
    IF enter
    THEN [e EXCEPT !.emergency_status = TRUE,
                   !.service_availability = Scale(e.service_availability, 7, 10)]
    ELSE IF e.emergency_status /\ resolve
         THEN [e EXCEPT !.emergency_status = FALSE]
         ELSE e

IsDigital(i) == i.service_type = "digital"
IsPhysical(i) == i.service_type = "physical"

_update_infrastructure_utilization(e, interactions) ==
    LET digital_usage == Len(SelectSeq(interactions, IsDigital))
        physical_usage == Len(SelectSeq(interactions, IsPhysical))
        total_interactions == Len(interactions)
    IN  IF total_interactions > 0
        THEN LET digital_ratio == (digital_usage * One) \div total_interactions
                 physical_ratio == (physical_usage * One) \div total_interactions
             IN [e EXCEPT !.infrastructure_utilization =
                    [digital |-> Scale(e.infrastructure_utilization.digital, 8, 10)
                                 + Scale(digital_ratio, 2, 10),
                     physical |-> Scale(e.infrastructure_utilization.physical, 8, 10)
                                 + Scale(physical_ratio, 2, 10)]]
        ELSE e

IsSuccess(i) == i.outcome = "success"

_update_service_quality(e, interactions) ==
    LET InArea(a) == SelectSeq(interactions, LAMBDA i : Get(i.area, "core_area") = a)
        NewQuality(a) ==
            LET l == InArea(a)
            IN  IF l # <<>>
                THEN LET success_rate == (Len(SelectSeq(l, IsSuccess)) * One) \div Len(l)
                         quality_change == Scale(success_rate - Scale(One, 7, 10), 5, 100)
                     IN  Max(0, Min(One, e.service_quality[a] + quality_change))
                ELSE e.service_quality[a]
    IN  [e EXCEPT !.service_quality = [a \in QualityAreas |-> NewQuality(a)]]

\* drift: one random.uniform(-1, 1) per digital area
_apply_random_changes(e, drift) ==
    LET drifted == [a \in DOMAIN e.digital_infrastructure |->
                       Max(0, Min(Hundred, e.digital_infrastructure[a] + drift[a]))]
    IN  IF e.emergency_status
        THEN [e EXCEPT !.digital_infrastructure =
                 [a \in DOMAIN drifted |-> Scale(drifted[a], 98, 100)]]
        ELSE [e EXCEPT !.digital_infrastructure = drifted]

\* Environment.update
update(e, interactions, enter, resolve, drift) ==
    LET e0 == [e EXCEPT !.update_count = e.update_count + 1]
        e1 == _update_system_load(e0, interactions)
        e2 == _update_service_availability(e1, interactions)
        e3 == _check_emergency_events(e2, enter, resolve)
        e4 == _update_infrastructure_utilization(e3, interactions)
        e5 == _update_service_quality(e4, interactions)
    IN  _apply_random_changes(e5, drift)

----------------------------------------------------------------------------
(* Signed deltas encoded as strings.  A string is a sequence of characters. *)

Digits == {"0", "1", "2", "3", "4", "5", "6", "7", "8", "9"}

DigitValue(c) ==
    CASE c = "0" -> 0 [] c = "1" -> 1 [] c = "2" -> 2 [] c = "3" -> 3
      [] c = "4" -> 4 [] c = "5" -> 5 [] c = "6" -> 6 [] c = "7" -> 7
      [] c = "8" -> 8 [] OTHER -> 9

RECURSIVE DecimalValue(_)
\* the integer a non-empty digit sequence denotes
DecimalValue(s) ==
    IF s = <<>> THEN 0
    ELSE DecimalValue(SubSeq(s, 1, Len(s) - 1)) * 10 + DigitValue(s[Len(s)])

\* str.replace(old, ''): drop every occurrence of the character
Remove(s, c) == SelectSeq(s, LAMBDA x : x # c)

RECURSIVE Strip(_)
\* str.strip(): drop leading and trailing blanks
Strip(s) ==
    IF s = <<>> THEN s
    ELSE IF Head(s) = " " THEN Strip(Tail(s))
    ELSE IF s[Len(s)] = " " THEN Strip(SubSeq(s, 1, Len(s) - 1))
    ELSE s

\* float(s) for blanks, an optional sign, digits and at most one decimal
\* point; anything else is a ValueError (ok = FALSE)
ParseFloat(s) ==
    LET t == Strip(s)
        signed == t # <<>> /\ Head(t) \in {"+", "-"}
        body == IF signed THEN Tail(t) ELSE t
        digits == Remove(body, ".")
        dots == Len(body) - Len(digits)
        ok == /\ digits # <<>>
              /\ dots <= 1
              /\ \A k \in 1..Len(digits) : digits[k] \in Digits
        point == IF ok /\ dots = 1 THEN CHOOSE k \in 1..Len(body) : body[k] = "." ELSE Len(body)
        magnitude == (DecimalValue(digits) * One) \div (10 ^ (Len(body) - point))
    IN  [ok |-> ok,
         value |-> IF ~ok THEN 0
                   ELSE IF signed /\ Head(t) = "-" THEN -magnitude ELSE magnitude]

\* a delta of a policy table: a string, or a number written in the JSON
Str(chars) == [kind |-> "str", chars |-> chars, value |-> 0]
Num(value) == [kind |-> "num", chars |-> <<>>, value |-> value]

\* float(change_str.replace('+', '')): a number has no replace (AttributeError),
\* an unparsable string is a ValueError; both leave ok = FALSE
InfraChange(change) ==
    IF change.kind = "num" THEN [ok |-> FALSE, value |-> 0]
    ELSE ParseFloat(Remove(change.chars, "+"))

\* the loop over one infrastructure table of apply_policy_intervention:
\* changes is the table as a sequence of <<area, change_str>> in dict order
RECURSIVE ApplyInfraChanges(_, _)
ApplyInfraChanges(levels, changes) ==
    IF changes = <<>> THEN [levels |-> levels, raised |-> FALSE]
    ELSE LET area == Head(changes)[1]
             parsed == InfraChange(Head(changes)[2])
         IN  IF area \in DOMAIN levels
             THEN IF ~parsed.ok
                  THEN [levels |-> levels, raised |-> TRUE]
                  ELSE ApplyInfraChanges(
                           [levels EXCEPT ![area] = Min(Hundred, levels[area] + parsed.value)],
                           Tail(changes))
             ELSE ApplyInfraChanges(levels, Tail(changes))

\* Environment.apply_policy_intervention; raised: a ValueError left the call
apply_policy_intervention(e, policy_name, policy_config) ==
    IF policy_config.target = "environment"
    THEN LET d == ApplyInfraChanges(e.digital_infrastructure,
                                    policy_config.attribute_change.digital_infrastructure)
             e1 == [e EXCEPT !.digital_infrastructure = d.levels]
             p == ApplyInfraChanges(e1.physical_infrastructure,
                                    policy_config.attribute_change.physical_infrastructure)
         IN  IF d.raised THEN [env |-> e1, raised |-> TRUE]
             ELSE [env |-> [e1 EXCEPT !.physical_infrastructure = p.levels],
                   raised |-> p.raised]
    ELSE [env |-> e, raised |-> FALSE]

----------------------------------------------------------------------------
(* Agents.  An agent is a record of its attributes and state mappings;      *)
(* agent_id is "government", "enterprise_<i>" or "resident_<i>".            *)

\* a decision mapping; a key the mapping lacks is "none"
Decision(action, target) == [action |-> action, target |-> target, mapping |-> TRUE]

\* a decision that is no mapping (a JSON list, string or number): it has no get
NotAMapping == [action |-> "none", target |-> "none", mapping |-> FALSE]

\* dict[key] = value, adding the key when the dict lacks it
Put(dict, key, value) == (key :> value) @@ dict

\* Agent.__init__ / GovernmentAgent.__init__ on its template of agents.json
GovernmentAgent(config, city) ==
    [agent_id |-> "government",
     attributes |->
         CASE city = "beijing" ->
                  Put(Put(config.attributes, "governance_preference", "fairness"),
                      "platform_regulation", 95 * One)
           [] city = "shenzhen" ->
                  Put(Put(config.attributes, "governance_preference", "efficiency"),
                      "information_transparency", 85 * One)
           [] OTHER -> config.attributes,
     state |-> config.initial_state, policy_modifiers |-> <<>>]

\* EnterpriseAgent.__init__ and the agent_id create_agents gives it
EnterpriseAgent(config, city, agent_id) ==
    [agent_id |-> agent_id,
     attributes |->
         CASE city = "beijing" ->
                  Put(Put(config.attributes, "technology_type", "government_project"),
                      "data_collection_strategy", "compliant")
           [] city = "shenzhen" ->
                  Put(Put(config.attributes, "technology_type", "market_driven"),
                      "data_collection_strategy", "flexible")
           [] OTHER -> config.attributes,
     state |-> config.initial_state]

\* attributes.get(name, default)
AttributeOr(attributes, name, default) ==
    IF name \in DOMAIN attributes THEN attributes[name] ELSE default

\* ResidentAgent.__init__: outside the core area information_literacy and
\* income_level are lowered
ResidentAgent(config, area, agent_id) ==
    LET literacy == config.attributes.information_literacy
        income == AttributeOr(config.attributes, "income_level", 5000 * One)
        adjusted == CASE area = "urban_rural_fringe" -> Max(30 * One, literacy - 20 * One)
                      [] area = "rural" -> Max(20 * One, literacy - 30 * One)
                      [] OTHER -> literacy
        lowered == [config.attributes EXCEPT !.information_literacy = adjusted]
    IN  [agent_id |-> agent_id, area |-> area,
         attributes |->
             CASE area = "urban_rural_fringe" ->
                      Put(lowered, "income_level", Max(3000 * One, income - 1500 * One))
               [] area = "rural" ->
                      Put(lowered, "income_level", Max(2000 * One, income - 2500 * One))
               [] OTHER -> lowered,
         state |-> config.initial_state, behavior_modifiers |-> <<>>]

\* random.random() yields a float in [0, 1): its two extremes
DrawValues == {0, One - 1}

----------------------------------------------------------------------------
(* InteractionEngine.  A rule table maps rule names to {probability,        *)
(* effect}; an operator that draws at random takes the draw as argument,    *)
(* and the operators named ...Choices give the set of results over all      *)
(* draws.                                                                   *)

EmptyTable == [n \in {} |-> [probability |-> 0]]

\* self.rules.get(pair, {})
PairRules(rules, pair) == IF pair \in DOMAIN rules THEN rules[pair] ELSE EmptyTable

\* rules.get(name, {}).get('probability', default)
RuleProbability(table, name, default) ==
    IF name \in DOMAIN table THEN table[name].probability ELSE default

RECURSIVE ConcatChoices(_)
\* every concatenation taking one sequence from each set of a sequence of sets
ConcatChoices(sets) ==
    IF sets = <<>> THEN {<<>>}
    ELSE {x \o rest : x \in Head(sets), rest \in ConcatChoices(Tail(sets))}

\* random.sample(population, k): the orderings of k distinct indices of 1..n
Sample(n, k) ==
    {q \in [1..k -> 1..n] : \A a, b \in 1..k : a # b => q[a] # q[b]}

\* The random module as one call of process meets it: the values random()
\* returns and the samples sample() returns.  AnyDraws leaves every call
\* free; SameDraws(u) is the generator whose every random() returns u, whose
\* samples are the first k of the population from either end and whose
\* randint returns one of its two limits.
AnyDraws == [values |-> DrawValues, free |-> TRUE]
SameDraws(u) == [values |-> {u}, free |-> FALSE]

SampleOf_repeating(random, n, k) == {[a \in 1..k |-> 1]}

\* random.sample(population, k) under the generator
SampleOf(random, n, k) ==
    IF random.free THEN Sample(n, k)
    ELSE {[a \in 1..k |-> a], [a \in 1..k |-> n + 1 - a]}

\* random.randint(low, high) under the generator
RandInt(random, low, high) == IF random.free THEN low..high ELSE {low, high}

_create_procurement_interaction(government, enterprise, rules, u) ==
    LET probability == RuleProbability(rules, "procurement_cooperation", Scale(One, 7, 10))
        enterprise_capability == enterprise.state.innovation_level \div 100
        success_prob == Scale(probability, enterprise_capability, One)
        outcome == IF u < success_prob THEN "success" ELSE "failed"
    IN  Interaction("procurement_cooperation", <<"government", enterprise.agent_id>>,
                    outcome, "none", "digital")

_create_regulation_interaction(government, enterprise, rules, u) ==
    LET compliance_rate == enterprise.attributes.data_usage_compliance \div 100
        compliant == u < compliance_rate
        outcome == IF compliant THEN "success" ELSE "violation"
    IN  Interaction("regulation", <<"government", enterprise.agent_id>>,
                    outcome, "none", "none")

_create_data_sharing_interaction(government, enterprise, rules, u) ==
    LET probability == RuleProbability(rules, "data_sharing", Scale(One, 3, 10))
        gov_transparency == government.attributes.information_transparency \div 100
        success_prob == Scale(probability, gov_transparency, One)
        outcome == IF u < success_prob THEN "success" ELSE "denied"
    IN  Interaction("data_sharing", <<"government", enterprise.agent_id>>,
                    outcome, "none", "none")

\* the sequences (empty for None) _create_gov_ent_interaction can return
_create_gov_ent_interaction(government, enterprise, gov_decision, rules, random) ==
    LET action == Get(gov_decision.action, "regulation")
    IN  CASE action = "procurement_cooperation" ->
                {<<_create_procurement_interaction(government, enterprise, rules, u)>> :
                     u \in random.values}
          [] action = "regulation" ->
                {<<_create_regulation_interaction(government, enterprise, rules, u)>> :
                     u \in random.values}
          [] action = "data_sharing" ->
                {<<_create_data_sharing_interaction(government, enterprise, rules, u)>> :
                     u \in random.values}
          [] OTHER -> {<<>>}

_create_bidding_interaction(enterprise, government, rules, u) ==
    LET capability == enterprise.state.innovation_level
        compliance == enterprise.attributes.data_usage_compliance
        success_score == (capability + compliance) \div 200
        outcome == IF u < success_score THEN "success" ELSE "failed"
    IN  Interaction("project_bidding", <<enterprise.agent_id, "government">>,
                    outcome, "none", "none")

_create_data_request_interaction(enterprise, government, rules, u) ==
    LET probability == RuleProbability(rules, "data_sharing", Scale(One, 3, 10))
        compliance == enterprise.attributes.data_usage_compliance \div 100
        success_prob == Scale(probability, compliance, One)
        outcome == IF u < success_prob THEN "approved" ELSE "denied"
    IN  Interaction("data_request", <<enterprise.agent_id, "government">>,
                    outcome, "none", "none")

_create_ent_gov_interaction(enterprise, government, ent_decision, rules, random) ==
    LET action == Get(ent_decision.action, "compliance_reporting")
    IN  CASE action = "project_bidding" ->
                {<<_create_bidding_interaction(enterprise, government, rules, u)>> :
                     u \in random.values}
          [] action = "data_request" ->
                {<<_create_data_request_interaction(enterprise, government, rules, u)>> :
                     u \in random.values}
          [] OTHER -> {<<>>}

\* zip(a, b) stops at the shorter list
ZipLen(a, b) == Min(Len(a), Len(b))

_process_government_enterprise_interactions(government, enterprises, gov_decision, ent_decisions, all_rules, random) ==
    LET rules == PairRules(all_rules, "government_enterprise")
        from_gov == [i \in 1..Len(enterprises) |->
            IF gov_decision.target \in {"enterprises", "enterprise"}
            THEN _create_gov_ent_interaction(government, enterprises[i], gov_decision, rules, random)
            ELSE {<<>>}]
        from_ent == [i \in 1..ZipLen(enterprises, ent_decisions) |->
            IF ent_decisions[i].target \in {"government", "gov"}
            THEN _create_ent_gov_interaction(enterprises[i], government, ent_decisions[i], rules, random)
            ELSE {<<>>}]
    IN  ConcatChoices(from_gov \o from_ent)

\* rule is rules['service_provision']; v is the draw for the service type
_create_service_interaction(government, resident, gov_decision, rule, u, v) ==
    LET probability == rule.probability
        area == resident.area
        infrastructure_quality ==
            CASE area = "core_area" -> Scale(One, 9, 10)
              [] area = "urban_rural_fringe" -> Scale(One, 7, 10)
              [] area = "rural" -> Scale(One, 5, 10)
              [] OTHER -> Scale(One, 7, 10)
        success_prob == Scale(probability, infrastructure_quality, One)
        outcome == IF u < success_prob THEN "success" ELSE "failed"
    IN  Interaction("service_provision", <<"government", resident.agent_id>>, outcome,
                    area, IF v > Scale(One, 3, 10) THEN "digital" ELSE "physical")

_create_resident_gov_interaction(resident, government, res_decision, rules, random) ==
    LET action == Get(res_decision.action, "provide_feedback")
        probability == RuleProbability(rules, "demand_response", Scale(One, 7, 10))
        gov_transparency == government.attributes.information_transparency \div 100
        success_prob == Scale(probability, gov_transparency, One)
    IN  IF action = "provide_feedback"
        THEN {<<Interaction("demand_response", <<resident.agent_id, "government">>,
                            IF u < success_prob THEN "success" ELSE "ignored",
                            resident.area, "none")>> : u \in random.values}
        ELSE {<<>>}

MaxServiceSample == 20

\* raised: rules['service_provision'] was looked up and is missing (KeyError)
_process_government_resident_interactions(government, residents, gov_decision, res_decisions, all_rules, random) ==
    LET rules == PairRules(all_rules, "government_resident")
        provides == gov_decision.action = "service_provision"
        num_interactions == Min(MaxServiceSample, Len(residents))
        provision ==
            IF ~provides THEN {<<>>}
            ELSE UNION {ConcatChoices([k \in 1..num_interactions |->
                            {<<_create_service_interaction(government, residents[selected[k]],
                                   gov_decision, rules["service_provision"], u, v)>> :
                                 u \in random.values, v \in random.values}]) :
                        selected \in SampleOf(random, Len(residents), num_interactions)}
        feedback == [i \in 1..ZipLen(residents, res_decisions) |->
            IF /\ res_decisions[i].target = "government"
               /\ res_decisions[i].action \in {"provide_feedback", "request_service"}
            THEN _create_resident_gov_interaction(residents[i], government, res_decisions[i], rules, random)
            ELSE {<<>>}]
    IN  IF provides /\ num_interactions > 0 /\ "service_provision" \notin DOMAIN rules
        THEN [raised |-> TRUE, choices |-> {}]
        ELSE [raised |-> FALSE, choices |-> ConcatChoices(<<provision>> \o feedback)]

_create_enterprise_service_interaction(enterprise, resident, ent_decision, rules, u) ==
    LET probability == RuleProbability(rules, "service_supply", Scale(One, 8, 10))
        resident_acceptance == resident.attributes.technology_acceptance \div 100
        enterprise_capability == enterprise.state.innovation_level \div 100
        success_prob == Scale(Scale(probability, resident_acceptance, One),
                              enterprise_capability, One)
        outcome == IF u < success_prob THEN "success" ELSE "rejected"
    IN  Interaction("service_supply", <<enterprise.agent_id, resident.agent_id>>,
                    outcome, resident.area, "none")

MinSupplySample == 5
MaxSupplySample == 15

_process_enterprise_resident_interactions(enterprises, residents, ent_decisions, res_decisions, all_rules, random) ==
    LET rules == PairRules(all_rules, "enterprise_resident")
        Supply(i) ==
            UNION {ConcatChoices([k \in 1..Len(selected) |->
                       {<<_create_enterprise_service_interaction(enterprises[i],
                              residents[selected[k]], ent_decisions[i], rules, u)>> :
                            u \in random.values}]) :
                   selected \in UNION {SampleOf(random, Len(residents), Min(num, Len(residents))) :
                                           num \in RandInt(random, MinSupplySample, MaxSupplySample)}}
        per_enterprise == [i \in 1..ZipLen(enterprises, ent_decisions) |->
            IF ent_decisions[i].action \in {"service_development", "service_promotion"}
            THEN Supply(i)
            ELSE {<<>>}]
    IN  ConcatChoices(per_enterprise)

MaxSharingPairs == 10

\* one pass of the pairing loop: a pair is drawn, then one draw decides
SharingChoices(residents, random) ==
    IF Len(residents) >= 2
    THEN UNION {LET probability == IF residents[pair[1]].area = residents[pair[2]].area
                                   THEN Scale(One, 3, 10) ELSE Scale(One, 1, 10)
                IN  {IF u < probability
                     THEN <<Interaction("information_sharing",
                                <<residents[pair[1]].agent_id, residents[pair[2]].agent_id>>,
                                "success", "none", "none")>>
                     ELSE <<>> : u \in random.values} :
                pair \in SampleOf(random, Len(residents), 2)}
    ELSE {<<>>}

_process_resident_resident_interactions(residents, res_decisions, random) ==
    LET num_interactions == Min(MaxSharingPairs, Len(residents) \div 10)
    IN  ConcatChoices([k \in 1..num_interactions |-> SharingChoices(residents, random)])

\* the same, but every agent is handed every interaction
InteractionsOf_all(agent_id, interactions) == interactions

\* the interactions that list agent_id as a participant, in order
InteractionsOf(agent_id, interactions) ==
    SelectSeq(interactions,
              LAMBDA i : \E k \in 1..Len(i.participants) : i.participants[k] = agent_id)

RECURSIVE _update_government_state(_, _)
_update_government_state(government, interactions) ==
    IF interactions = <<>> THEN government
    ELSE LET outcome == Head(interactions).outcome
             old == government.state.resource_utilization
             next == IF outcome = "success"
                     THEN [government EXCEPT !.state.resource_utilization =
                              Min(One, old + Scale(One, 1, 100))]
                     ELSE IF outcome \in {"failed", "violation"}
                     THEN [government EXCEPT !.state.resource_utilization =
                              Max(0, old - Scale(One, 1, 100))]
                     ELSE government
         IN  _update_government_state(next, Tail(interactions))

RECURSIVE _update_enterprise_state(_, _)
_update_enterprise_state(enterprise, interactions) ==
    IF interactions = <<>> THEN enterprise
    ELSE LET outcome == Head(interactions).outcome
             interaction_type == Head(interactions).type
             next == IF outcome = "success" /\ interaction_type = "procurement_cooperation"
                     THEN [enterprise EXCEPT !.state.innovation_level =
                              Min(Hundred, enterprise.state.innovation_level + 2 * One)]
                     ELSE IF outcome = "success" /\ interaction_type = "service_supply"
                     THEN [enterprise EXCEPT !.state.market_share =
                              Min(One, enterprise.state.market_share + Scale(One, 1, 100))]
                     ELSE enterprise
         IN  _update_enterprise_state(next, Tail(interactions))

\* the same fold with the min/max clamps of lines 543-554 left out
RECURSIVE _update_resident_state_unclamped(_, _)
_update_resident_state_unclamped(resident, interactions) ==
    IF interactions = <<>> THEN resident
    ELSE LET outcome == Head(interactions).outcome
             interaction_type == Head(interactions).type
             satisfaction == resident.state.satisfaction
             trust == resident.attributes.trust_in_government
             lowered == [resident EXCEPT !.state.satisfaction =
                            satisfaction - Scale(One, 5, 100)]
             next == IF outcome = "success" /\ interaction_type = "service_provision"
                     THEN [resident EXCEPT !.state.satisfaction =
                              satisfaction + Scale(One, 1, 10)]
                     ELSE IF outcome = "success" /\ interaction_type = "demand_response"
                     THEN [resident EXCEPT !.attributes.trust_in_government = trust + One]
                     ELSE IF outcome \in {"failed", "ignored"}
                     THEN IF interaction_type = "demand_response"
                          THEN [lowered EXCEPT !.attributes.trust_in_government =
                                   trust - 2 * One]
                          ELSE lowered
                     ELSE resident
         IN  _update_resident_state_unclamped(next, Tail(interactions))

\* InteractionEngine._update_resident_state
RECURSIVE _update_resident_state(_, _)
_update_resident_state(resident, interactions) ==
    IF interactions = <<>> THEN resident
    ELSE LET outcome == Head(interactions).outcome
             interaction_type == Head(interactions).type
             satisfaction == resident.state.satisfaction
             trust == resident.attributes.trust_in_government
             lowered == [resident EXCEPT !.state.satisfaction =
                            Max(One, satisfaction - Scale(One, 5, 100))]
             next == IF outcome = "success" /\ interaction_type = "service_provision"
                     THEN [resident EXCEPT !.state.satisfaction =
                              Min(5 * One, satisfaction + Scale(One, 1, 10))]
                     ELSE IF outcome = "success" /\ interaction_type = "demand_response"
                     THEN [resident EXCEPT !.attributes.trust_in_government =
                              Min(Hundred, trust + One)]
                     ELSE IF outcome \in {"failed", "ignored"}
                     THEN IF interaction_type = "demand_response"
                          THEN [lowered EXCEPT !.attributes.trust_in_government =
                                   Max(0, trust - 2 * One)]
                          ELSE lowered
                     ELSE resident
         IN  _update_resident_state(next, Tail(interactions))

\* InteractionEngine._update_agent_states: the agents after folding
_update_agent_states(government, enterprises, residents, interactions) ==
    [government |->
         _update_government_state(government, InteractionsOf("government", interactions)),
     enterprises |-> [i \in 1..Len(enterprises) |->
         _update_enterprise_state(enterprises[i],
                                  InteractionsOf(enterprises[i].agent_id, interactions))],
     residents |-> [i \in 1..Len(residents) |->
         _update_resident_state(residents[i],
                                InteractionsOf(residents[i].agent_id, interactions))]]

\* decision.get(...) on a decision that is no mapping raises AttributeError:
\* the government's decision is read first, an enterprise's or resident's
\* decision when zip pairs it with an agent
GetRaises(enterprises, residents, gov_decision, ent_decisions, res_decisions) ==
    \/ ~gov_decision.mapping
    \/ \E i \in 1..ZipLen(enterprises, ent_decisions) : ~ent_decisions[i].mapping
    \/ \E i \in 1..ZipLen(residents, res_decisions) : ~res_decisions[i].mapping

\* InteractionEngine.process: the possible results over all random draws.
\* raised: an exception left process before anything was written.
process(government, enterprises, residents, gov_decision, ent_decisions, res_decisions, all_rules, random) ==
    LET ge == _process_government_enterprise_interactions(
                  government, enterprises, gov_decision, ent_decisions, all_rules, random)
        gr == _process_government_resident_interactions(
                  government, residents, gov_decision, res_decisions, all_rules, random)
        er == _process_enterprise_resident_interactions(
                  enterprises, residents, ent_decisions, res_decisions, all_rules, random)
        rr == _process_resident_resident_interactions(residents, res_decisions, random)
    IN  IF GetRaises(enterprises, residents, gov_decision, ent_decisions, res_decisions)
               \/ gr.raised
        THEN {[raised |-> TRUE, interactions |-> <<>>,
               agents |-> [government |-> government, enterprises |-> enterprises,
                           residents |-> residents]]}
        ELSE {[raised |-> FALSE, interactions |-> l,
               agents |-> _update_agent_states(government, enterprises, residents, l)] :
                  l \in ConcatChoices(<<ge, gr.choices, er, rr>>)}

----------------------------------------------------------------------------
(* PolicyEngine.  A policy is {target, attribute_change, behavior_change,   *)
(* rule_change}; a table is the sequence of its entries in dict order.      *)
(* The engine's calls work on a "world": the agents, the environment and    *)
(* the engine's own lists, with raised = an exception left the call.        *)

\* PolicyEngine._parse_change_value
\* except ValueError: return 0.0
ValueOrZero(parsed) == IF parsed.ok THEN parsed.value ELSE 0

_parse_change_value(change) ==
    IF change.kind = "num" THEN change.value
    ELSE ValueOrZero(ParseFloat(Strip(change.chars)))

\* attributes whose configured value is a string: adding a float raises TypeError
StringAttributes == {"governance_preference", "technology_type", "data_collection_strategy"}

\* for attr_name, change_str in attribute_changes.items(): clamp to [0, 100]
RECURSIVE ApplyAttributeChanges(_, _)
ApplyAttributeChanges(agent, changes) ==
    IF changes = <<>> THEN [agent |-> agent, raised |-> FALSE]
    ELSE LET attr_name == Head(changes)[1]
             change == _parse_change_value(Head(changes)[2])
         IN  IF attr_name \in DOMAIN agent.attributes
             THEN IF attr_name \in StringAttributes
                  THEN [agent |-> agent, raised |-> TRUE]
                  ELSE ApplyAttributeChanges(
                           [agent EXCEPT !.attributes[attr_name] =
                               Min(Hundred, Max(0, agent.attributes[attr_name] + change))],
                           Tail(changes))
             ELSE ApplyAttributeChanges(agent, Tail(changes))

RECURSIVE ApplyBehaviorChanges(_, _)
\* resident.behavior_modifiers[behavior_name] = change
ApplyBehaviorChanges(resident, changes) ==
    IF changes = <<>> THEN resident
    ELSE ApplyBehaviorChanges(
             [resident EXCEPT !.behavior_modifiers =
                 (Head(changes)[1] :> _parse_change_value(Head(changes)[2])) @@ @],
             Tail(changes))

LiteracyThreshold == 70

\* whether _apply_resident_policy targets the resident
IsTargetResident(policy_name, resident) ==
    policy_name = "digital_literacy_training"
        => resident.attributes.information_literacy < LiteracyThreshold * One

\* a loop over a list of agents that stops at the first exception:
\* changed[k] is what the loop body makes of agents[k]
LoopOverAgents(list, changed) ==
    LET raising == {k \in 1..Len(list) : changed[k].raised}
        first == IF raising = {} THEN Len(list) + 1
                 ELSE CHOOSE k \in raising : \A j \in raising : k <= j
    IN  [agents |-> [k \in 1..Len(list) |->
                        IF k <= first THEN changed[k].agent ELSE list[k]],
         raised |-> raising # {}]

\* the behavior changes follow the attribute changes unless those raised
ThenBehaviorChanges(a, changes) ==
    IF a.raised THEN a
    ELSE [agent |-> ApplyBehaviorChanges(a.agent, changes), raised |-> FALSE]

\* the body of the loop over target_residents
ChangeResident(policy_name, policy_config, resident) ==
    IF IsTargetResident(policy_name, resident)
    THEN ThenBehaviorChanges(
             ApplyAttributeChanges(resident, policy_config.attribute_change),
             policy_config.behavior_change)
    ELSE [agent |-> resident, raised |-> FALSE]

WithResidents(w, r) == [w EXCEPT !.residents = r.agents, !.raised = r.raised]

_apply_resident_policy(policy_name, policy_config, w) ==
    WithResidents(w, LoopOverAgents(w.residents,
        [k \in 1..Len(w.residents) |->
            ChangeResident(policy_name, policy_config, w.residents[k])]))

RECURSIVE ApplyRuleChanges(_, _)
\* government.policy_modifiers[rule_name][param] = change, for <<rule_name, param, change_str>>
ApplyRuleChanges(modifiers, changes) ==
    IF changes = <<>> THEN modifiers
    ELSE ApplyRuleChanges(
             (<<Head(changes)[1], Head(changes)[2]>> :> _parse_change_value(Head(changes)[3]))
                 @@ modifiers,
             Tail(changes))

_apply_government_enterprise_policy(policy_name, policy_config, w) ==
    LET g == [w.government EXCEPT !.policy_modifiers =
                 ApplyRuleChanges(@, policy_config.rule_change)]
        Effect(e) ==
            IF policy_name = "data_open_sharing"
            THEN IF e.attributes.data_collection_strategy = "compliant"
                 THEN [e EXCEPT !.attributes =
                          Put(@, "data_sharing_willingness", Scale(One, 8, 10))]
                 ELSE e
            ELSE IF policy_name = "algorithm_regulation"
            THEN [e EXCEPT !.attributes.data_usage_compliance = Min(Hundred, @ + 5 * One)]
            ELSE e
    IN  [w EXCEPT !.government = g,
                  !.enterprises = [i \in 1..Len(w.enterprises) |-> Effect(w.enterprises[i])]]

WithEnvironment(w, r) == [w EXCEPT !.env = r.env, !.raised = r.raised]

_apply_environment_policy(policy_name, policy_config, w) ==
    WithEnvironment(w, apply_policy_intervention(w.env, policy_name, policy_config))

WithGovernment(w, r) == [w EXCEPT !.government = r.agent, !.raised = r.raised]

_apply_government_policy(policy_name, policy_config, w) ==
    WithGovernment(w, ApplyAttributeChanges(w.government, policy_config.attribute_change))

WithEnterprises(w, r) == [w EXCEPT !.enterprises = r.agents, !.raised = r.raised]

_apply_enterprise_policy(policy_name, policy_config, w) ==
    WithEnterprises(w, LoopOverAgents(w.enterprises,
        [k \in 1..Len(w.enterprises) |->
            ApplyAttributeChanges(w.enterprises[k], policy_config.attribute_change)]))

\* self.policy_history.append(...), reached when nothing was raised before it
RecordApplication(done, policy_name, target) ==
    IF done.raised THEN done
    ELSE [done EXCEPT !.policy_history =
             Append(@, [policy_name |-> policy_name, target |-> target])]

_apply_single_policy(policy_name, policy_config, w) ==
    RecordApplication(
        CASE policy_config.target = "resident" ->
                 _apply_resident_policy(policy_name, policy_config, w)
          [] policy_config.target = "government_enterprise" ->
                 _apply_government_enterprise_policy(policy_name, policy_config, w)
          [] policy_config.target = "environment" ->
                 _apply_environment_policy(policy_name, policy_config, w)
          [] policy_config.target = "government" ->
                 _apply_government_policy(policy_name, policy_config, w)
          [] policy_config.target = "enterprise" ->
                 _apply_enterprise_policy(policy_name, policy_config, w)
          [] OTHER -> w,
        policy_name, policy_config.target)

\* the tracking without its membership test
TrackApplied_always(done, policy_name) ==
    IF done.raised THEN done
    ELSE [done EXCEPT !.applied_policies = Append(@, policy_name)]

\* if policy_name not in self.applied_policies: self.applied_policies.append(policy_name)
TrackApplied(done, policy_name) ==
    IF done.raised
           \/ \E k \in 1..Len(done.applied_policies) : done.applied_policies[k] = policy_name
    THEN done
    ELSE [done EXCEPT !.applied_policies = Append(@, policy_name)]

RECURSIVE apply(_, _, _)
\* PolicyEngine.apply(government, enterprises, residents, environment, policy_interventions)
apply(policies, w, policy_interventions) ==
    IF policy_interventions = <<>> \/ w.raised THEN w
    ELSE apply(policies,
               IF Head(policy_interventions) \in DOMAIN policies
               THEN TrackApplied(
                        _apply_single_policy(Head(policy_interventions),
                                             policies[Head(policy_interventions)], w),
                        Head(policy_interventions))
               ELSE w,
               Tail(policy_interventions))

----------------------------------------------------------------------------
(* The Environment on its own: update and apply_policy_intervention called *)
(* in any order with arbitrary arguments.                                  *)

MaxUpdates == 3
MaxPolicyCalls == 1

\* environment configurations (per-city entries of environments.json)
EnvConfigs ==
    {[digital_infrastructure |-> [core_area |-> d],
      physical_infrastructure |-> [core_area |-> 90 * One, rural |-> 40 * One]] :
        d \in {0, Hundred}}

DriftValues == {-One, One}

SampleRequest == Interaction("service_request", <<"resident_0", "government">>,
                             "success", "core_area", "digital")
SampleProvision == Interaction("service_provision", <<"government", "resident_1">>,
                               "failed", "rural", "physical")
SampleFailure == Interaction("service_use", <<"resident_0">>,
                             "system_failure", "none", "none")
SampleProcurement == Interaction("procurement_cooperation", <<"government", "enterprise_0">>,
                                 "success", "none", "digital")
SampleResponse == Interaction("demand_response", <<"resident_1", "government">>,
                              "ignored", "urban_rural_fringe", "none")

\* interaction lists handed to update
EnvInteractionLists ==
    {<<>>,
     Repeat(SampleRequest, AssumedCapacity),
     <<SampleProvision>>,
     <<SampleFailure, SampleFailure>>,
     <<SampleProcurement, SampleResponse>>}

PolicyDeltas == {Str(<<"+", "2", "0">>), Str(<<"+", "2", "0", "0">>),
                 Str(<<"-", "3", "0">>), Str(<<"-", "2", "0", "0">>)}

\* one-entry environment policies: {target, attribute_change: {table: {area: delta}}}
EnvPolicyConfigs ==
    {[target |-> "environment",
      attribute_change |->
          [digital_infrastructure |-> IF table = "digital" THEN <<<<area, delta>>>> ELSE <<>>,
           physical_infrastructure |-> IF table = "physical" THEN <<<<area, delta>>>> ELSE <<>>]] :
        table \in {"digital", "physical"}, area \in {"core_area", "rural"},
        delta \in PolicyDeltas}

\* no update has been called
NoCheck ==
    [emergency_status |-> FALSE, service_availability |-> One, enter |-> FALSE,
     interactions |-> <<>>, service_quality |-> <<>>, digital_infrastructure |-> <<>>,
     physical_infrastructure |-> <<>>, drift |-> <<>>]

\* a generator nobody draws from
NoDraws == [stream |-> <<>>, pos |-> 1]

\* the part of the state a specification leaves alone
NoDecisions ==
    [government |-> Decision("none", "none"), enterprises |-> <<>>, residents |-> <<>>]

NoAgents ==
    agents = [government |-> GovernmentAgent([attributes |-> <<>>, initial_state |-> <<>>],
                                             "none"),
              enterprises |-> <<>>, residents |-> <<>>]

NoEngine ==
    /\ rules_config = <<>>
    /\ history_len = 0
    /\ decisions = NoDecisions
    /\ last_interactions = <<>>
    /\ process_raised = FALSE
    /\ process_calls = 0
    /\ process_args = <<>>

NoPolicies ==
    /\ applied_policies = <<>>
    /\ policy_history = <<>>
    /\ apply_calls = 0
    /\ apply_args = <<>>
    /\ apply_raised = FALSE

\* run_simulation is not running
NoDriver ==
    /\ pc = "none"
    /\ round_num = 0
    /\ simulation_records = <<>>
    /\ interaction_history = <<>>
    /\ log_data = <<>>
    /\ results = <<>>
    /\ call = <<>>
    /\ trace = <<>>
    /\ num_rounds = 0
    /\ rng = NoDraws
    /\ provider = <<>>

EnvInit ==
    /\ \E config \in EnvConfigs : env = EnvironmentInit(config)
    /\ env_calls = 0
    /\ policy_calls = 0
    /\ check_pre = NoCheck
    /\ NoAgents /\ NoEngine /\ NoPolicies /\ NoDriver

\* one call env.update(interactions)
EnvUpdate ==
    /\ env_calls < MaxUpdates
    /\ \E interactions \in EnvInteractionLists, enter \in BOOLEAN, resolve \in BOOLEAN,
          drift \in [DOMAIN env.digital_infrastructure -> DriftValues] :
          LET pre == _update_service_availability(
                         _update_system_load(env, interactions), interactions)
          IN  /\ env' = update(env, interactions, enter, resolve, drift)
              /\ check_pre' = [emergency_status |-> pre.emergency_status,
                               service_availability |-> pre.service_availability,
                               enter |-> enter,
                               interactions |-> interactions,
                               service_quality |-> env.service_quality,
                               digital_infrastructure |-> env.digital_infrastructure,
                               physical_infrastructure |-> env.physical_infrastructure,
                               drift |-> drift]
    /\ env_calls' = env_calls + 1
    /\ UNCHANGED <<runVars, policy_calls, agentVars, engineVars, policyVars, driverVars>>

\* one call env.apply_policy_intervention(name, config) that returns normally
EnvApplyPolicy ==
    /\ policy_calls < MaxPolicyCalls
    /\ \E policy_config \in EnvPolicyConfigs :
          env' = apply_policy_intervention(env, "policy", policy_config).env
    /\ policy_calls' = policy_calls + 1
    /\ UNCHANGED <<runVars, env_calls, check_pre, agentVars, engineVars, policyVars, driverVars>>

UpdateNext == EnvUpdate
SpecUpdate == EnvInit /\ [][UpdateNext]_vars

EnvNext == EnvUpdate \/ EnvApplyPolicy
SpecEnv == EnvInit /\ [][EnvNext]_vars

----------------------------------------------------------------------------
(* The engines on a roster of agents: InteractionEngine.process and        *)
(* PolicyEngine.apply called in any order.                                  *)

MaxProcessCalls == 1
MaxApplyCalls == 1

Cities == {"beijing", "shenzhen"}

\* an agent template (agents.json) near the upper bounds
UpperConfig ==
    [government |-> [attributes |-> [information_transparency |-> 99 * One],
                     initial_state |-> [resource_utilization |-> One - 5]],
     enterprise |-> [attributes |-> [data_usage_compliance |-> 98 * One],
                     initial_state |-> [innovation_level |-> 99 * One,
                                        market_share |-> One - 5]],
     resident |-> [attributes |-> [trust_in_government |-> 99 * One + 500,
                                   information_literacy |-> 60 * One,
                                   technology_acceptance |-> 70 * One],
                   initial_state |-> [satisfaction |-> 5 * One - 50]]]

\* an agent template near the lower bounds
LowerConfig ==
    [government |-> [attributes |-> [information_transparency |-> 70 * One],
                     initial_state |-> [resource_utilization |-> 5]],
     enterprise |-> [attributes |-> [data_usage_compliance |-> 90 * One],
                     initial_state |-> [innovation_level |-> 50 * One,
                                        market_share |-> Scale(One, 1, 10)]],
     resident |-> [attributes |-> [trust_in_government |-> One,
                                   information_literacy |-> 95 * One,
                                   technology_acceptance |-> 70 * One],
                   initial_state |-> [satisfaction |-> One + 20]]]

AgentsConfigs == {UpperConfig, LowerConfig}

\* the areas create_agents can draw for the residents, in roster order
ResidentAreas == {<<"core_area">>, <<"rural">>}

\* create_agents(agents_config, city, num_enterprises, num_residents)
create_agents(agents_config, city, num_enterprises, areas) ==
    [government |-> GovernmentAgent(agents_config.government, city),
     enterprises |-> [i \in 1..num_enterprises |->
         EnterpriseAgent(agents_config.enterprise, city,
                         "enterprise_" \o ToString(i - 1))],
     residents |-> [i \in 1..Len(areas) |->
         ResidentAgent(agents_config.resident, areas[i],
                       "resident_" \o ToString(i - 1))]]

Rule(probability) == [probability |-> probability, effect |-> "effect"]

\* rules.json
FullRules ==
    [government_enterprise |->
         [procurement_cooperation |-> Rule(Scale(One, 7, 10)),
          regulation |-> Rule(Scale(One, 9, 10)),
          data_sharing |-> Rule(Scale(One, 3, 10))],
     government_resident |->
         [service_provision |-> Rule(Scale(One, 8, 10)),
          demand_response |-> Rule(Scale(One, 7, 10))],
     enterprise_resident |->
         [service_supply |-> Rule(Scale(One, 8, 10))]]

\* a table without the named rules
Without(table, names) == [n \in DOMAIN table \ names |-> table[n]]

\* a table with the probability of every rule set to 0
Zeroed(table) == [n \in DOMAIN table |-> [table[n] EXCEPT !.probability = 0]]

RuleTables ==
    {FullRules,
     [FullRules EXCEPT !.government_resident = Without(@, {"service_provision"})],
     [FullRules EXCEPT !.government_enterprise = Without(@, {"procurement_cooperation"}),
                       !.enterprise_resident = Without(@, {"service_supply"})],
     [FullRules EXCEPT !.government_enterprise = Zeroed(@)]}

\* the decisions handed to process: well-formed ones, and ones that lack the
\* action, lack the target or are no mapping
GovDecisions == {Decision("service_provision", "residents"),
                 Decision("procurement_cooperation", "enterprises"),
                 Decision("regulation", "enterprises"),
                 Decision("data_sharing", "enterprises"),
                 Decision("none", "enterprises"),
                 Decision("service_provision", "none"),
                 NotAMapping}
EntDecisions == {Decision("service_development", "residents"),
                 Decision("project_bidding", "government"),
                 Decision("data_request", "government"),
                 Decision("service_development", "none"),
                 Decision("none", "government"),
                 NotAMapping}
ResDecisions == {Decision("provide_feedback", "government"),
                 Decision("use_service", "government"),
                 Decision("provide_feedback", "none"),
                 Decision("none", "government"),
                 NotAMapping}

NoChanges == [attribute_change |-> <<>>, behavior_change |-> <<>>, rule_change |-> <<>>]

\* policies.json
PoliciesConfig ==
    [digital_literacy_training |->
         [NoChanges EXCEPT !.attribute_change = <<<<"information_literacy", Str(<<"+", "2", "0">>)>>>>,
                           !.behavior_change = <<<<"service_usage", Str(<<"+", "0", ".", "3">>)>>>>]
             @@ [target |-> "resident"],
     austerity |->
         [NoChanges EXCEPT !.attribute_change =
             <<<<"trust_in_government", Str(<<"-", "2", "0", "0">>)>>,
               <<"technology_acceptance", Str(<<"+", "2", "0", "0">>)>>>>]
             @@ [target |-> "resident"],
     data_open_sharing |->
         [NoChanges EXCEPT !.rule_change =
             <<<<"data_sharing", "probability", Str(<<"+", "0", ".", "3">>)>>>>]
             @@ [target |-> "government_enterprise"],
     algorithm_regulation |->
         [NoChanges EXCEPT !.rule_change =
             <<<<"regulation", "probability", Str(<<"+", "0", ".", "1">>)>>>>]
             @@ [target |-> "government_enterprise"],
     inclusive_infrastructure |->
         [NoChanges EXCEPT !.attribute_change =
             [digital_infrastructure |-> <<<<"core_area", Str(<<"+", "1", "5">>)>>>>,
              physical_infrastructure |-> <<<<"rural", Str(<<"+", "1", "0">>)>>>>]]
             @@ [target |-> "environment"],
     open_government |->
         [NoChanges EXCEPT !.attribute_change =
             <<<<"information_transparency", Str(<<"+", "2", "0", "0">>)>>>>]
             @@ [target |-> "government"],
     compliance_relief |->
         [NoChanges EXCEPT !.attribute_change =
             <<<<"data_usage_compliance", Str(<<"-", "2", "0", "0">>)>>>>]
             @@ [target |-> "enterprise"],
     transparency_drive |->
         [NoChanges EXCEPT !.attribute_change =
             <<<<"information_transparency", Str(<<"+", "1", "0">>)>>>>]
             @@ [target |-> "government"],
     garbled_training |->
         [NoChanges EXCEPT !.attribute_change =
             <<<<"information_literacy", Str(<<"a", "b">>)>>>>]
             @@ [target |-> "resident"],
     numeric_relief |->
         [NoChanges EXCEPT !.attribute_change =
             <<<<"data_usage_compliance", Num(-(5 * One))>>>>]
             @@ [target |-> "enterprise"],
     garbled_infrastructure |->
         [NoChanges EXCEPT !.attribute_change =
             [digital_infrastructure |-> <<<<"core_area", Str(<<"a", "b">>)>>>>,
              physical_infrastructure |-> <<>>]]
             @@ [target |-> "environment"],
     numeric_infrastructure |->
         [NoChanges EXCEPT !.attribute_change =
             [digital_infrastructure |-> <<>>,
              physical_infrastructure |-> <<<<"core_area", Num(15 * One)>>>>]]
             @@ [target |-> "environment"],
     remote_infrastructure |->
         [NoChanges EXCEPT !.attribute_change =
             [digital_infrastructure |-> <<<<"suburb", Str(<<"+", "1", "5">>)>>>>,
              physical_infrastructure |-> <<>>]]
             @@ [target |-> "environment"]]

\* the policies of the table whose delta or area is a configuration error
Misconfigured == {"garbled_training", "garbled_infrastructure",
                  "numeric_infrastructure", "remote_infrastructure"}

\* the policy_interventions lists handed to apply
PolicyLists ==
    {<<name>> : name \in DOMAIN PoliciesConfig \cup {"unknown_policy"}}
        \cup {<<"digital_literacy_training", "digital_literacy_training">>,
              <<"transparency_drive", "transparency_drive">>,
              <<"transparency_drive", "unknown_policy", "compliance_relief",
                "transparency_drive">>}
        \cup {<<name, "transparency_drive">> : name \in Misconfigured \cup {"unknown_policy"}}

AgentsInit ==
    /\ \E agents_config \in AgentsConfigs, city \in Cities, areas \in ResidentAreas :
           agents = create_agents(agents_config, city, 1, areas)
    /\ rules_config \in RuleTables
    /\ history_len = 0
    /\ decisions = NoDecisions
    /\ last_interactions = <<>>
    /\ process_raised = FALSE
    /\ process_calls = 0
    /\ process_args = <<>>
    /\ NoPolicies
    /\ NoDriver
    /\ env = EnvironmentInit(CHOOSE config \in EnvConfigs : TRUE)
    /\ env_calls = 0
    /\ policy_calls = 0
    /\ check_pre = NoCheck

\* one call interaction_engine.process(government, enterprises, residents, ...)
ProcessRound ==
    /\ process_calls < MaxProcessCalls
    /\ \E g \in GovDecisions,
          e \in [1..Len(agents.enterprises) -> EntDecisions],
          r \in [1..Len(agents.residents) -> ResDecisions] :
          \E result \in process(agents.government, agents.enterprises, agents.residents,
                                g, e, r, rules_config, AnyDraws) :
              /\ agents' = result.agents
              /\ last_interactions' = result.interactions
              /\ process_raised' = result.raised
              /\ history_len' = history_len + Len(result.interactions)
              /\ decisions' = [government |-> g, enterprises |-> e, residents |-> r]
    /\ process_args' = agents
    /\ process_calls' = process_calls + 1
    /\ UNCHANGED <<runVars, rules_config, envVars, policyVars, driverVars>>

\* the world PolicyEngine.apply works on
World ==
    [government |-> agents.government, enterprises |-> agents.enterprises,
     residents |-> agents.residents, env |-> env, applied_policies |-> applied_policies,
     policy_history |-> policy_history, raised |-> FALSE]

\* the names handed to the engine in its earlier calls, and whether all of
\* these calls returned
Earlier == IF apply_calls = 0 THEN [requested |-> <<>>, returned |-> TRUE]
           ELSE [requested |-> apply_args.requested, returned |-> apply_args.returned]

\* one call policy_engine.apply(government, enterprises, residents, env, names),
\* of at most max calls on the engine
ApplyUpTo(max) ==
    /\ apply_calls < max
    /\ \E policy_interventions \in PolicyLists :
          \E w \in {apply(PoliciesConfig, World, policy_interventions)} :
              /\ agents' = [government |-> w.government, enterprises |-> w.enterprises,
                            residents |-> w.residents]
              /\ env' = w.env
              /\ applied_policies' = w.applied_policies
              /\ policy_history' = w.policy_history
              /\ apply_raised' = w.raised
              /\ apply_args' = [government |-> agents.government,
                                enterprises |-> agents.enterprises,
                                residents |-> agents.residents, env |-> env,
                                policy_interventions |-> policy_interventions,
                                requested |-> Earlier.requested \o policy_interventions,
                                returned |-> Earlier.returned /\ ~w.raised]
    /\ apply_calls' = apply_calls + 1
    /\ UNCHANGED <<runVars, env_calls, policy_calls, check_pre, engineVars, driverVars>>

ApplyPolicies == ApplyUpTo(MaxApplyCalls)

AgentsNext == ProcessRound \/ ApplyPolicies
SpecAgents == AgentsInit /\ [][AgentsNext]_vars

\* a PolicyEngine that is called more than once
MaxEngineCalls == 2
ApplyAgain == ApplyUpTo(MaxEngineCalls)
PolicyNext == ApplyAgain
SpecPolicy == AgentsInit /\ [][PolicyNext]_vars

----------------------------------------------------------------------------
(* Agent.decide and the Decision Provider (the LLM call).  One call of the  *)
(* provider either answers with JSON text that holds a mapping, answers     *)
(* with text that holds no JSON object, or raises.                          *)

Provided(decision) == [kind |-> "decision", decision |-> decision]
UnparsableText == [kind |-> "unparsable", decision |-> Decision("none", "none")]
ProviderError == [kind |-> "error", decision |-> Decision("none", "none")]

\* the actions random.choice picks from in the role's _get_default_decision
DefaultActions(agent_type) ==
    CASE agent_type = "government" -> <<"service_provision", "policy_adjustment", "regulation">>
      [] agent_type = "enterprise" -> <<"service_development", "market_expansion", "innovation">>
      [] agent_type = "resident" -> <<"use_service", "provide_feedback", "seek_information">>

\* GovernmentAgent/EnterpriseAgent/ResidentAgent._get_default_decision;
\* choice is the index random.choice draws
_get_default_decision(agent_type, choice) ==
    Decision(DefaultActions(agent_type)[choice],
             IF agent_type = "resident" THEN "government" ELSE "residents")

\* Agent._parse_response: its own handler turns every failure into the default
_parse_response(response, default) ==
    IF response.kind = "decision" THEN response.decision ELSE default

\* Agent.decide: the decision it returns and the entry it appends to
\* interaction_history (has_fallback: the entry has the key 'fallback').
\* Its handler catches every Exception, so it never raises one.
decide(response, default) ==
    IF response.kind = "error"
    THEN [decision |-> default, raised |-> FALSE,
          entry |-> [decision |-> default, has_fallback |-> TRUE]]
    ELSE [decision |-> _parse_response(response, default), raised |-> FALSE,
          entry |-> [decision |-> _parse_response(response, default),
                     has_fallback |-> FALSE]]

\* 'fallback' in agent.interaction_history[-1] if agent.interaction_history else False
IsFallback(history) ==
    IF history # <<>> THEN history[Len(history)].has_fallback ELSE FALSE

----------------------------------------------------------------------------
(* SimulationLogger: log_data = {rounds, errors, summary}.  A round number  *)
(* n addresses the list element rounds[n], the (n + 1)-th entry.            *)

SimulationLogger ==
    [rounds |-> <<>>, errors |-> <<>>,
     summary |-> [status |-> "none", metrics |-> <<>>, interruption_reason |-> "none"]]

log_round_start(log, n, agent_counts) ==
    [log EXCEPT !.rounds = Append(@, [round |-> n, agent_counts |-> agent_counts,
                                      decisions |-> <<>>, interactions |-> <<>>,
                                      environment_state |-> <<>>,
                                      status |-> "in_progress"])]

\* round_num >= 0 and round_num < len(self.log_data["rounds"])
HasEntry(log, n) == n >= 0 /\ n < Len(log.rounds)

log_agent_decision(log, n, agent_type, agent_id, decision, is_fallback) ==
    IF HasEntry(log, n)
    THEN [log EXCEPT !.rounds[n + 1].decisions =
             Append(@, [agent_type |-> agent_type, agent_id |-> agent_id,
                        decision |-> decision, is_fallback |-> is_fallback])]
    ELSE log

log_interactions(log, n, interactions) ==
    IF HasEntry(log, n) THEN [log EXCEPT !.rounds[n + 1].interactions = interactions]
    ELSE log

log_environment_update(log, n, env_state) ==
    IF HasEntry(log, n) THEN [log EXCEPT !.rounds[n + 1].environment_state = env_state]
    ELSE log

log_round_complete(log, n) ==
    IF HasEntry(log, n) THEN [log EXCEPT !.rounds[n + 1].status = "completed"]
    ELSE log

log_error(log, n, error_type) ==
    [log EXCEPT !.errors = Append(@, [round |-> n, type |-> error_type])]

log_simulation_complete(log, metrics) ==
    [log EXCEPT !.summary.metrics = metrics, !.summary.status = "completed"]

interrupt_simulation(log) ==
    [log EXCEPT !.summary.status = "interrupted",
                !.summary.interruption_reason = "keyboard"]

----------------------------------------------------------------------------
(* run_simulation.  A round record keeps the interaction list, a copy of    *)
(* the environment (get_state) and, under 'agents', the state dicts of the  *)
(* agents themselves: references, written here as the agents' ids.          *)

NumRounds == 2
NumEnterprises == 1
City == "beijing"

\* the key Environment.get_context cannot do without: the averages divide by
\* the sizes of the two infrastructure maps
get_context(e) ==
    [raised |-> DOMAIN e.digital_infrastructure = {}
                    \/ DOMAIN e.physical_infrastructure = {},
     service_availability |-> e.service_availability,
     system_load |-> e.system_load,
     emergency_status |-> e.emergency_status]

\* agent.state of every agent, as the dicts are now
StatesOf(roster) ==
    [government |-> roster.government.state,
     enterprises |-> [i \in 1..Len(roster.enterprises) |-> roster.enterprises[i].state],
     residents |-> [i \in 1..Len(roster.residents) |-> roster.residents[i].state]]

\* the dicts a record's 'agents' entry refers to
StateRefs(roster) ==
    [government |-> roster.government.agent_id,
     enterprises |-> [i \in 1..Len(roster.enterprises) |-> roster.enterprises[i].agent_id],
     residents |-> [i \in 1..Len(roster.residents) |-> roster.residents[i].agent_id]]

\* round_record of lines 214-228
RoundRecord(n, interactions, e, roster, decs) ==
    [round |-> n,
     interactions |-> interactions,
     environment |-> get_state(e),
     agents |-> StateRefs(roster),
     decisions_sample |->
         [government |-> decs.government,
          enterprises |-> SubSeq(decs.enterprises, 1, Min(5, Len(decs.enterprises))),
          residents |-> SubSeq(decs.residents, 1, Min(10, Len(decs.residents)))]]

\* what reading the records yields now: 'agents' read through its references
ReadRecords(records, roster) ==
    [i \in 1..Len(records) |-> [records[i] EXCEPT !.agents = StatesOf(roster)]]

RECURSIVE AllInteractions(_)
\* all_interactions: the records' interaction lists, concatenated
AllInteractions(records) ==
    IF records = <<>> THEN <<>>
    ELSE Head(records).interactions \o AllInteractions(Tail(records))

MetricKeys == {"efficiency", "fairness", "resilience", "agent_status", "collaboration"}

\* np.mean over the residents' service_usage_frequency raises on a string
IsUsageString(resident) ==
    /\ "service_usage_frequency" \in DOMAIN resident.state
    /\ resident.state.service_usage_frequency.kind = "str"

RECURSIVE SumSeq(_)
SumSeq(values) == IF values = <<>> THEN 0 ELSE Head(values) + SumSeq(Tail(values))

\* np.mean of a non-empty list
Mean(values) == SumSeq(values) \div Len(values)

\* np.var of a non-empty list: the mean squared distance from the mean
Variance(values) ==
    Mean([k \in 1..Len(values) |->
             ((values[k] - Mean(values)) * (values[k] - Mean(values))) \div One])

RECURSIVE Insert(_, _)
Insert(x, sorted) ==
    IF sorted = <<>> THEN <<x>>
    ELSE IF x <= Head(sorted) THEN <<x>> \o sorted
    ELSE <<Head(sorted)>> \o Insert(x, Tail(sorted))

RECURSIVE Sorted(_)
\* sorted(values)
Sorted(values) ==
    IF values = <<>> THEN <<>> ELSE Insert(Head(values), Sorted(Tail(values)))

\* the same, but the difference is not divided by n
GiniOfSorted_undivided(values) ==
    LET n == Len(values)
        cumsum == [k \in 1..n |-> SumSeq(SubSeq(values, 1, k))]
        ratio == (2 * SumSeq(cumsum) * One) \div cumsum[n]
    IN  Max(0, Min(One, (n + 1) * One - ratio))

\* the Gini formula on a sorted list whose total is positive
GiniOfSorted(values) ==
    LET n == Len(values)
        cumsum == [k \in 1..n |-> SumSeq(SubSeq(values, 1, k))]
        ratio == (2 * SumSeq(cumsum) * One) \div cumsum[n]
    IN  Max(0, Min(One, ((n + 1) * One - ratio) \div n))

\* metrics/fairness.py calculate_gini
calculate_gini(values) ==
    IF Len(values) < 2 THEN 0
    ELSE IF \A k \in 1..Len(values) : Max(0, values[k]) = Max(0, values[1]) THEN 0
    ELSE GiniOfSorted(Sorted([k \in 1..Len(values) |-> Max(0, values[k])]))

\* 1.0 if r.get('digital_access', False) else 0.0, averaged
AccessRate(residents) ==
    Mean([k \in 1..Len(residents) |-> IF residents[k].digital_access THEN One ELSE 0])

\* metrics/fairness.py calculate_digital_divide
calculate_digital_divide(residents) ==
    LET high_income == SelectSeq(residents, LAMBDA r : r.income_level > 6000 * One)
        low_income == SelectSeq(residents, LAMBDA r : r.income_level <= 6000 * One)
    IN  IF high_income = <<>> \/ low_income = <<>> THEN 0
        ELSE IF AccessRate(high_income) >= AccessRate(low_income)
        THEN AccessRate(high_income) - AccessRate(low_income)
        ELSE AccessRate(low_income) - AccessRate(high_income)

FairnessAreas == <<"core_area", "urban_rural_fringe", "rural">>

\* the residents of the k-th area
InFairnessArea(residents, k) ==
    SelectSeq(residents, LAMBDA r : r.area = FairnessAreas[k])

\* metrics/fairness.py calculate_fairness, on data whose usage frequencies
\* are numbers
calculate_fairness(residents) ==
    IF residents = <<>>
    THEN [service_access_gini |-> 0, usage_depth_gini |-> 0,
          satisfaction_gini |-> 0, digital_divide_index |-> 0]
    ELSE [service_access_gini |-> calculate_gini(
              [k \in 1..3 |-> IF InFairnessArea(residents, k) = <<>> THEN 0
                              ELSE AccessRate(InFairnessArea(residents, k))]),
          usage_depth_gini |-> calculate_gini(
              [k \in 1..3 |-> IF InFairnessArea(residents, k) = <<>> THEN 0
                              ELSE Mean([j \in 1..Len(InFairnessArea(residents, k)) |->
                                  InFairnessArea(residents, k)[j].service_usage_frequency])]),
          satisfaction_gini |-> calculate_gini(
              [k \in 1..3 |-> IF InFairnessArea(residents, k) = <<>> THEN 0
                              ELSE Mean([j \in 1..Len(InFairnessArea(residents, k)) |->
                                  InFairnessArea(residents, k)[j].satisfaction])]),
          digital_divide_index |-> calculate_digital_divide(residents)]

\* resident_data of calculate_metrics (main.py lines 307-316)
ResidentData(resident) ==
    [area |-> resident.area,
     digital_access |-> AttributeOr(resident.state, "digital_access", TRUE),
     service_usage_frequency |->
         AttributeOr(resident.state, "service_usage_frequency", Num(5 * One)).value,
     satisfaction |-> AttributeOr(resident.state, "satisfaction", 3 * One),
     income_level |-> AttributeOr(resident.attributes, "income_level", 5000 * One)]

IsEmergencyResponse(i) == i.type = "emergency_response"

\* the same, but a run without emergencies scores 0.0
calculate_system_recovery_speed_zero(records) ==
    IF SelectSeq(AllInteractions(records), IsEmergencyResponse) = <<>>
    THEN 0
    ELSE Max(0, One - (5 * One) \div 10)

\* metrics/resilience.py calculate_system_recovery_speed on non-empty records;
\* no interaction carries a recovery_time, so each event counts 5.0
calculate_system_recovery_speed(records) ==
    IF SelectSeq(AllInteractions(records), IsEmergencyResponse) = <<>>
    THEN Scale(One, 8, 10)
    ELSE Max(0, One - (5 * One) \div 10)

\* metrics/resilience.py calculate_service_disruption_rate
calculate_service_disruption_rate(records) ==
    (Len(SelectSeq(records,
                   LAMBDA r : r.environment.service_availability < Scale(One, 8, 10))) * One)
        \div Len(records)

\* successful / total of one record's interactions
RecordEfficiency(record) ==
    (Len(SelectSeq(record.interactions, IsSuccess)) * One) \div Len(record.interactions)

\* metrics/resilience.py calculate_period_efficiency
calculate_period_efficiency(records) ==
    LET scored == SelectSeq(records, LAMBDA r : r.interactions # <<>>)
    IN  IF scored = <<>> THEN 0
        ELSE Mean([k \in 1..Len(scored) |-> RecordEfficiency(scored[k])])

\* -len(records)//3 rounds toward minus infinity: the last ceil(n/3) records
LastThird(records) ==
    SubSeq(records, Len(records) - ((Len(records) + 2) \div 3) + 1, Len(records))

\* metrics/resilience.py calculate_adaptive_capacity
calculate_adaptive_capacity(records) ==
    IF Len(records) < 10 THEN One \div 2
    ELSE Max(0, Min(One, One \div 2
             + calculate_period_efficiency(LastThird(records))
             - calculate_period_efficiency(SubSeq(records, 1, Len(records) \div 3))))

\* the average satisfaction of a record's residents, on a 0-1 scale
SatisfactionLevel(record) ==
    IF record.agents.residents = <<>> THEN Scale(One, 6, 10)
    ELSE Mean([k \in 1..Len(record.agents.residents) |->
                  AttributeOr(record.agents.residents[k], "satisfaction", 3 * One)]) \div 5

\* metrics/resilience.py calculate_stability_index
calculate_stability_index(records) ==
    IF Len(records) < 2 THEN One
    ELSE Min(One, Max(0, One - 10 *
             ((Variance([k \in 1..Len(records) |-> records[k].environment.service_availability])
               + Variance([k \in 1..Len(records) |-> SatisfactionLevel(records[k])]))
              \div 2)))

\* metrics/resilience.py calculate_resilience; records as they read now
calculate_resilience(records) ==
    IF records = <<>>
    THEN [system_recovery_speed |-> 0, service_disruption_rate |-> 0,
          adaptive_capacity |-> 0, stability_index |-> 0]
    ELSE [system_recovery_speed |-> calculate_system_recovery_speed(records),
          service_disruption_rate |-> calculate_service_disruption_rate(records),
          adaptive_capacity |-> calculate_adaptive_capacity(records),
          stability_index |-> calculate_stability_index(records)]

\* calculate_metrics: whether it raises, and the mapping it returns.  The
\* efficiency, agent_status and collaboration calculators are pure functions;
\* their value is written as the calculator's name and the size of the data
\* it is applied to.
calculate_metrics(records, roster) ==
    [raised |-> \E i \in 1..Len(roster.residents) : IsUsageString(roster.residents[i]),
     metrics |->
         [efficiency |-> [function |-> "calculate_efficiency",
                          over |-> Len(AllInteractions(records))],
          fairness |-> calculate_fairness(
              [i \in 1..Len(roster.residents) |-> ResidentData(roster.residents[i])]),
          resilience |-> calculate_resilience(ReadRecords(records, roster)),
          agent_status |-> [function |-> "calculate_agent_status",
                            over |-> 1 + Len(roster.enterprises) + Len(roster.residents)],
          collaboration |-> [function |-> "calculate_collaboration",
                             over |-> Len(records)]]]

\* the same dictionary, but a failed computation also drops the records
CompileResults_dropping(m, records) ==
    [city |-> City,
     num_rounds |-> num_rounds,
     policy_interventions |-> <<>>,
     metrics |-> IF m.raised THEN <<>> ELSE m.metrics,
     raw_records |-> IF m.raised THEN <<>> ELSE records]

\* the dictionary run_simulation returns; metrics = {} when the computation raised
CompileResults(m, records) ==
    [city |-> City,
     num_rounds |-> num_rounds,
     policy_interventions |-> <<>>,
     metrics |-> IF m.raised THEN <<>> ELSE m.metrics,
     raw_records |-> records]

\* the resident template with a service_usage_frequency in its initial_state
WithUsage(agents_config, frequency) ==
    [agents_config EXCEPT !.resident.initial_state =
        [service_usage_frequency |-> frequency] @@ @]

\* rules.json without government_resident.service_provision
RulesWithoutProvision ==
    [FullRules EXCEPT !.government_resident = Without(@, {"service_provision"})]

\* agents.json and rules.json: the frequency is a number or a word, the rule
\* table is complete or lacks a rule
DriverSetups ==
    {[agents_config |-> WithUsage(LowerConfig, Num(5 * One)), rules |-> FullRules],
     [agents_config |-> WithUsage(LowerConfig, Num(5 * One)),
      rules |-> RulesWithoutProvision],
     [agents_config |-> WithUsage(LowerConfig, Str(<<"d", "a", "i", "l", "y">>)),
      rules |-> RulesWithoutProvision]}

\* the city's entry of environments.json, with and without digital_infrastructure
DriverEnvConfigs ==
    {[digital_infrastructure |-> [core_area |-> 90 * One],
      physical_infrastructure |-> [core_area |-> 80 * One]],
     [digital_infrastructure |-> <<>>,
      physical_infrastructure |-> [core_area |-> 80 * One]]}

DriverAreas == {<<"core_area">>}

\* what the provider can do in a decide call of each role
Responses(agent_type) ==
    {UnparsableText, ProviderError,
     Provided(CASE agent_type = "government" -> Decision("regulation", "enterprises")
                [] agent_type = "enterprise" -> Decision("compliance_report", "government")
                [] agent_type = "resident" -> Decision("provide_feedback", "government"))}

\* the indices random.choice draws in _get_default_decision
DefaultChoices == {1}

\* the draws of one Environment.update
RoundDraws == {[enter |-> FALSE, resolve |-> FALSE, drift |-> One]}

AgentCounts(roster) ==
    [government |-> 1, enterprises |-> Len(roster.enterprises),
     residents |-> Len(roster.residents)]

AgentIds(roster) ==
    {roster.government.agent_id}
        \cup {roster.enterprises[i].agent_id : i \in 1..Len(roster.enterprises)}
        \cup {roster.residents[i].agent_id : i \in 1..Len(roster.residents)}

NoTrace ==
    [snapshots |-> <<>>, calls |-> <<>>, failed |-> {}, started |-> 0,
     interrupted |-> "no", interrupt_round |-> -1, at_loop_end |-> <<>>,
     metrics_raised |-> FALSE, steps |-> <<>>]

\* run_simulation(city, None, rounds, num_enterprises, num_residents) up to
\* the round loop (lines 85-130); areas_drawn: the areas create_agents can draw
RunInit(rounds, num_enterprises, areas_drawn, env_configs) ==
    /\ \E setup \in DriverSetups, areas \in areas_drawn :
          /\ agents = create_agents(setup.agents_config, City, num_enterprises, areas)
          /\ rules_config = setup.rules
    /\ \E env_config \in env_configs : env = EnvironmentInit(env_config)
    /\ num_rounds = rounds
    /\ rng = NoDraws
    /\ provider = <<>>
    /\ log_data = log_round_start(SimulationLogger, -1, AgentCounts(agents))
    /\ interaction_history = [id \in AgentIds(agents) |-> <<>>]
    /\ pc = "round_start"
    /\ round_num = 0
    /\ simulation_records = <<>>
    /\ results = <<>>
    /\ call = <<>>
    /\ trace = NoTrace
    /\ history_len = 0
    /\ decisions = NoDecisions
    /\ last_interactions = <<>>
    /\ process_raised = FALSE
    /\ process_calls = 0
    /\ process_args = <<>>
    /\ NoPolicies
    /\ env_calls = 0
    /\ policy_calls = 0
    /\ check_pre = NoCheck

DriverInit == RunInit(NumRounds, NumEnterprises, DriverAreas, DriverEnvConfigs)

\* for round_num in range(num_rounds): log_round_start, then the try block
StartRound ==
    /\ pc = "round_start"
    /\ round_num < num_rounds
    /\ log_data' = log_round_start(log_data, round_num, AgentCounts(agents))
    /\ trace' = [trace EXCEPT !.started = @ + 1]
    /\ decisions' = NoDecisions
    /\ pc' = "get_context"
    /\ UNCHANGED <<runVars, envVars, agentVars, policyVars, process_args, rules_config, history_len,
                   last_interactions, process_raised, process_calls, round_num,
                   simulation_records, interaction_history, results, call>>

\* the loop has run through range(num_rounds)
EndLoop ==
    /\ pc = "round_start"
    /\ round_num = num_rounds
    /\ pc' = "metrics"
    /\ trace' = [trace EXCEPT !.at_loop_end = ReadRecords(simulation_records, agents)]
    /\ UNCHANGED <<runVars, envVars, agentVars, engineVars, policyVars, round_num,
                   simulation_records, interaction_history, log_data, results, call>>

\* a handler that logs the error and leaves the loop
RoundFails_break(error_type) ==
    /\ log_data' = log_error(log_data, round_num, error_type)
    /\ trace' = [trace EXCEPT !.failed = @ \cup {round_num},
                              !.at_loop_end = ReadRecords(simulation_records, agents)]
    /\ round_num' = round_num
    /\ pc' = "metrics"

\* except Exception (lines 247-251): log the error, continue with the next round
RoundFails(error_type) ==
    /\ log_data' = log_error(log_data, round_num, error_type)
    /\ trace' = [trace EXCEPT !.failed = @ \cup {round_num}]
    /\ round_num' = round_num + 1
    /\ pc' = "round_start"

\* a statement of the round that has returned, as the properties see it
Step(name) == [round |-> round_num, step |-> name]

\* env_context = env.get_context()
GetContext ==
    /\ pc = "get_context"
    /\ IF get_context(env).raised
       THEN RoundFails("simulation_round")
       ELSE /\ pc' = "gov_decide"
            /\ trace' = [trace EXCEPT !.steps = Append(@, Step("get_context"))]
            /\ UNCHANGED <<round_num, log_data>>
    /\ UNCHANGED <<runVars, envVars, agentVars, engineVars, policyVars, simulation_records,
                   interaction_history, results, call>>

\* the decisions of the residents left out
AfterDecisions_skipping(decs) ==
    IF Len(decs.enterprises) < Len(agents.enterprises) THEN "ent_decide"
    ELSE "process"

\* the statement that follows the decisions gathered so far
AfterDecisions(decs) ==
    IF Len(decs.enterprises) < Len(agents.enterprises) THEN "ent_decide"
    ELSE IF Len(decs.residents) < Len(agents.residents) THEN "res_decide"
    ELSE "process"

\* one decide call as the properties see it
Call(agent_id, response, d, is_fallback, logged) ==
    [round |-> round_num, agent_id |-> agent_id, provider |-> response.kind,
     decision |-> d.decision, has_fallback |-> d.entry.has_fallback,
     logged |-> logged, is_fallback |-> is_fallback]

\* gov_decision = government.decide(env_context) and its log entry
GovDecide ==
    /\ pc = "gov_decide"
    /\ \E response \in Responses("government"), choice \in DefaultChoices :
          \E d \in {decide(response, _get_default_decision("government", choice))} :
          \E history \in {Append(interaction_history["government"], d.entry)} :
              /\ interaction_history' =
                     [interaction_history EXCEPT !["government"] = history]
              /\ decisions' = [decisions EXCEPT !.government = d.decision]
              /\ log_data' = log_agent_decision(log_data, round_num, "government", <<"gov", 0>>,
                                                d.decision, IsFallback(history))
              /\ trace' = [trace EXCEPT !.calls =
                              Append(@, Call("government", response, d,
                                             IsFallback(history), TRUE)),
                                           !.steps = Append(@, Step("decide"))]
              /\ pc' = AfterDecisions(decisions')
    /\ UNCHANGED <<runVars, envVars, agentVars, policyVars, process_args, rules_config, history_len,
                   last_interactions, process_raised, process_calls, round_num,
                   simulation_records, results, call>>

\* one pass of the loop over the enterprises (lines 152-172).  The handler of
\* lines 166-172 takes over when decide raises, which Agent.decide never does.
EntDecide ==
    /\ pc = "ent_decide"
    /\ \E response \in Responses("enterprise"), choice \in DefaultChoices :
          \E i \in {Len(decisions.enterprises) + 1} :
          \E d \in {decide(response, _get_default_decision("enterprise", choice))} :
          \E history \in {Append(interaction_history[agents.enterprises[i].agent_id],
                                 d.entry)} :
              IF d.raised
              THEN /\ decisions' = [decisions EXCEPT !.enterprises =
                          Append(@, _get_default_decision("enterprise", choice))]
                   /\ log_data' = log_error(log_data, round_num, "enterprise_decision")
                   /\ pc' = AfterDecisions(decisions')
                   /\ UNCHANGED <<interaction_history, trace>>
              ELSE /\ interaction_history' = [interaction_history EXCEPT
                          ![agents.enterprises[i].agent_id] = history]
                   /\ decisions' = [decisions EXCEPT !.enterprises = Append(@, d.decision)]
                   /\ log_data' = log_agent_decision(log_data, round_num, "enterprise",
                                                     <<"ent", i - 1>>, d.decision, IsFallback(history))
                   /\ trace' = [trace EXCEPT !.calls =
                                   Append(@, Call(agents.enterprises[i].agent_id, response, d,
                                                  IsFallback(history), TRUE)),
                                           !.steps = Append(@, Step("decide"))]
                   /\ pc' = AfterDecisions(decisions')
    /\ UNCHANGED <<runVars, envVars, agentVars, policyVars, process_args, rules_config, history_len,
                   last_interactions, process_raised, process_calls, round_num,
                   simulation_records, results, call>>

\* one pass of the loop over the residents (lines 175-196); only the first
\* ten residents' decisions are logged
ResDecide ==
    /\ pc = "res_decide"
    /\ \E response \in Responses("resident"), choice \in DefaultChoices :
          \E i \in {Len(decisions.residents) + 1} :
          \E d \in {decide(response, _get_default_decision("resident", choice))} :
          \E history \in {Append(interaction_history[agents.residents[i].agent_id],
                                 d.entry)} :
              IF d.raised
              THEN /\ decisions' = [decisions EXCEPT !.residents =
                          Append(@, _get_default_decision("resident", choice))]
                   /\ log_data' = IF i = 1
                                  THEN log_error(log_data, round_num, "resident_decision")
                                  ELSE log_data
                   /\ pc' = AfterDecisions(decisions')
                   /\ UNCHANGED <<interaction_history, trace>>
              ELSE /\ interaction_history' = [interaction_history EXCEPT
                          ![agents.residents[i].agent_id] = history]
                   /\ decisions' = [decisions EXCEPT !.residents = Append(@, d.decision)]
                   /\ log_data' = IF i <= 10
                                  THEN log_agent_decision(log_data, round_num, "resident",
                                           <<"res", i - 1>>, d.decision, IsFallback(history))
                                  ELSE log_data
                   /\ trace' = [trace EXCEPT !.calls =
                                   Append(@, Call(agents.residents[i].agent_id, response, d,
                                                  IsFallback(history), i <= 10)),
                                           !.steps = Append(@, Step("decide"))]
                   /\ pc' = AfterDecisions(decisions')
    /\ UNCHANGED <<runVars, envVars, agentVars, policyVars, process_args, rules_config, history_len,
                   last_interactions, process_raised, process_calls, round_num,
                   simulation_records, results, call>>

\* interactions = interaction_engine.process(...) and its log entry
Process ==
    /\ pc = "process"
    /\ \E result \in process(agents.government, agents.enterprises, agents.residents,
                             decisions.government, decisions.enterprises,
                             decisions.residents, rules_config, AnyDraws) :
          IF result.raised
          THEN /\ RoundFails("simulation_round")
               /\ process_raised' = TRUE
               /\ UNCHANGED <<agents, last_interactions, history_len>>
          ELSE /\ agents' = result.agents
               /\ last_interactions' = result.interactions
               /\ history_len' = history_len + Len(result.interactions)
               /\ process_raised' = FALSE
               /\ log_data' = log_interactions(log_data, round_num, result.interactions)
               /\ pc' = "update"
               /\ trace' = [trace EXCEPT !.steps = Append(@, Step("process"))]
               /\ UNCHANGED round_num
    /\ process_calls' = process_calls + 1
    /\ process_args' = agents
    /\ UNCHANGED <<runVars, envVars, policyVars, rules_config, decisions, simulation_records,
                   interaction_history, results, call>>

\* env.update(interactions) and its log entry
Update ==
    /\ pc = "update"
    /\ \E draws \in RoundDraws :
          \E e \in {update(env, last_interactions, draws.enter, draws.resolve,
                           [a \in DOMAIN env.digital_infrastructure |-> draws.drift])} :
              /\ env' = e
              /\ log_data' = log_environment_update(log_data, round_num, get_state(e))
    /\ env_calls' = env_calls + 1
    /\ trace' = [trace EXCEPT !.steps = Append(@, Step("update"))]
    /\ pc' = "record"
    /\ UNCHANGED <<runVars, policy_calls, check_pre, agentVars, engineVars, policyVars, round_num,
                   simulation_records, interaction_history, results, call>>

\* simulation_records.append(round_record), log_round_complete, next round
Record ==
    /\ pc = "record"
    /\ simulation_records' =
           Append(simulation_records,
                  RoundRecord(round_num, last_interactions, env, agents, decisions))
    /\ log_data' = log_round_complete(log_data, round_num)
    /\ trace' = [trace EXCEPT !.snapshots =
                    Append(@, [round |-> round_num, agents |-> StatesOf(agents),
                               environment |-> get_state(env)]),
                              !.steps = Append(@, Step("record"))]
    /\ round_num' = round_num + 1
    /\ pc' = "round_start"
    /\ UNCHANGED <<runVars, envVars, agentVars, engineVars, policyVars, interaction_history,
                   results, call>>

\* the statements of a round that the try block of lines 139-251 covers
TrySteps == {"get_context", "gov_decide", "ent_decide", "res_decide", "process",
             "update", "record"}

\* KeyboardInterrupt inside the try block: interrupt_simulation, break
InterruptInTry ==
    /\ pc \in TrySteps
    /\ log_data' = interrupt_simulation(log_data)
    /\ trace' = [trace EXCEPT !.interrupted = "in_try", !.interrupt_round = round_num,
                              !.at_loop_end = ReadRecords(simulation_records, agents)]
    /\ pc' = "metrics"
    /\ UNCHANGED <<runVars, envVars, agentVars, engineVars, policyVars, round_num,
                   simulation_records, interaction_history, results, call>>

\* KeyboardInterrupt at the head of the loop body (lines 134-137), which no
\* handler covers: it leaves run_simulation
InterruptOutsideTry ==
    /\ pc = "round_start"
    /\ round_num < num_rounds
    /\ trace' = [trace EXCEPT !.interrupted = "outside_try",
                              !.interrupt_round = round_num]
    /\ pc' = "raised"
    /\ UNCHANGED <<runVars, envVars, agentVars, engineVars, policyVars, round_num,
                   simulation_records, interaction_history, log_data, results, call>>

\* lines 255-280: the metrics, their handler, the results
CalculateMetrics ==
    /\ pc = "metrics"
    /\ \E m \in {calculate_metrics(simulation_records, agents)} :
          /\ results' = CompileResults(m, simulation_records)
          /\ log_data' = IF m.raised
                         THEN log_error(log_data, -1, "metrics_calculation")
                         ELSE log_simulation_complete(log_data, m.metrics)
          /\ trace' = [trace EXCEPT !.metrics_raised = m.raised]
    /\ pc' = "done"
    /\ UNCHANGED <<runVars, envVars, agentVars, engineVars, policyVars, round_num,
                   simulation_records, interaction_history, call>>

DriverNext ==
    \/ StartRound \/ EndLoop \/ GetContext \/ GovDecide \/ EntDecide \/ ResDecide
    \/ Process \/ Update \/ Record \/ InterruptInTry \/ InterruptOutsideTry
    \/ CalculateMetrics

SpecDriver == DriverInit /\ [][DriverNext]_vars

----------------------------------------------------------------------------
(* run_simulation on a degenerate population: a government, no enterprise, *)
(* no resident, a city whose infrastructure maps are not empty, and no     *)
(* user interrupt.                                                          *)

DegenerateRounds == 5

DegenerateEnvConfigs ==
    {c \in DriverEnvConfigs : DOMAIN c.digital_infrastructure # {}
                                 /\ DOMAIN c.physical_infrastructure # {}}

DegenerateInit == RunInit(DegenerateRounds, 0, {<<>>}, DegenerateEnvConfigs)

DegenerateNext ==
    \/ StartRound \/ EndLoop \/ GetContext \/ GovDecide \/ Process \/ Update \/ Record
    \/ CalculateMetrics

SpecDegenerate == DegenerateInit /\ [][DegenerateNext]_vars

----------------------------------------------------------------------------
(* The decision-gathering phase of one round (main.py lines 141-196) with   *)
(* the decide calls made in any order.  The random module has one generator *)
(* for the whole process: rng.stream is what it will yield from the state   *)
(* it is in when the phase starts, rng.pos the next element to yield.       *)

\* the slot of the batch whose decide call has not returned yet
Pending == [action |-> "pending", target |-> "pending", mapping |-> FALSE]

\* random.choice(actions) on a list of three, from the draw u in [0, 1)
ChoiceIndex(u) == ((3 * u) \div One) + 1

\* the draws a role's _get_default_decision takes from the generator: one for
\* random.choice, and one more for the resident's random.uniform(2.0, 4.0)
DrawsOf(agent_type) == IF agent_type = "resident" THEN 2 ELSE 1

MaxDraws == 4

TypeOf(agent_id, roster) ==
    IF agent_id = "government" THEN "government"
    ELSE IF \E i \in 1..Len(roster.enterprises) : roster.enterprises[i].agent_id = agent_id
    THEN "enterprise"
    ELSE "resident"

\* agent.decide(env_context) with the generator in state g: the decision, the
\* entry appended to the agent's interaction_history, the generator afterwards
DecideWith(agent_type, response, g) ==
    LET d == decide(response, _get_default_decision(agent_type, ChoiceIndex(g.stream[g.pos])))
    IN  [decision |-> d.decision, entry |-> d.entry,
         rng |-> IF response.kind = "decision" THEN g
                 ELSE [g EXCEPT !.pos = @ + DrawsOf(agent_type)]]

\* the batch with the decision of agent_id in its slot
Filled(batch, roster, agent_id, decision) ==
    CASE TypeOf(agent_id, roster) = "government" -> [batch EXCEPT !.government = decision]
      [] TypeOf(agent_id, roster) = "enterprise" ->
             [batch EXCEPT !.enterprises =
                 [i \in 1..Len(@) |-> IF roster.enterprises[i].agent_id = agent_id
                                      THEN decision ELSE @[i]]]
      [] OTHER ->
             [batch EXCEPT !.residents =
                 [i \in 1..Len(@) |-> IF roster.residents[i].agent_id = agent_id
                                      THEN decision ELSE @[i]]]

SlotOf(batch, roster, agent_id) ==
    CASE TypeOf(agent_id, roster) = "government" -> batch.government
      [] TypeOf(agent_id, roster) = "enterprise" ->
             batch.enterprises[CHOOSE i \in 1..Len(roster.enterprises) :
                                   roster.enterprises[i].agent_id = agent_id]
      [] OTHER ->
             batch.residents[CHOOSE i \in 1..Len(roster.residents) :
                                 roster.residents[i].agent_id = agent_id]

EmptyBatch(roster) ==
    [government |-> Pending,
     enterprises |-> [i \in 1..Len(roster.enterprises) |-> Pending],
     residents |-> [i \in 1..Len(roster.residents) |-> Pending]]

\* the state of the phase: the batch, the histories, the generator
Gathering(batch, histories, g) == [decisions |-> batch, histories |-> histories, rng |-> g]

\* one decide call made in the state st of the phase
AfterDecide(st, roster, answers, agent_id) ==
    LET d == DecideWith(TypeOf(agent_id, roster), answers[agent_id], st.rng)
    IN  Gathering(Filled(st.decisions, roster, agent_id, d.decision),
                  [st.histories EXCEPT ![agent_id] = Append(@, d.entry)],
                  d.rng)

RECURSIVE GatherInOrder(_, _, _, _)
\* the decide calls made in the order of the sequence ids
GatherInOrder(st, roster, answers, ids) ==
    IF ids = <<>> THEN st
    ELSE GatherInOrder(AfterDecide(st, roster, answers, Head(ids)), roster, answers, Tail(ids))

\* what the provider can answer in the phase
GatherResponses(agent_type) == Responses(agent_type)

GatherEnv == EnvironmentInit(CHOOSE c \in DegenerateEnvConfigs : TRUE)

GatherInit ==
    /\ agents = create_agents(LowerConfig, City, 1, <<"core_area">>)
    /\ provider \in {f \in [AgentIds(agents) -> UNION {GatherResponses(t) :
                                  t \in {"government", "enterprise", "resident"}}] :
                        \A id \in AgentIds(agents) :
                            f[id] \in GatherResponses(TypeOf(id, agents))}
    /\ \E stream \in [1..MaxDraws -> DrawValues] : rng = [stream |-> stream, pos |-> 1]
    /\ decisions = EmptyBatch(agents)
    /\ interaction_history = [id \in AgentIds(agents) |-> <<>>]
    /\ env = GatherEnv
    /\ pc = "gather"
    /\ rules_config = FullRules
    /\ history_len = 0
    /\ last_interactions = <<>>
    /\ process_raised = FALSE
    /\ process_calls = 0
    /\ process_args = <<>>
    /\ NoPolicies
    /\ round_num = 0
    /\ num_rounds = 1
    /\ simulation_records = <<>>
    /\ log_data = <<>>
    /\ results = <<>>
    /\ call = <<>>
    /\ trace = NoTrace
    /\ env_calls = 0
    /\ policy_calls = 0
    /\ check_pre = NoCheck

\* the decide call of any agent that has not decided yet
GatherDecide ==
    /\ pc = "gather"
    /\ \E agent_id \in AgentIds(agents) :
          /\ SlotOf(decisions, agents, agent_id) = Pending
          /\ \E st \in {AfterDecide(Gathering(decisions, interaction_history, rng),
                                    agents, provider, agent_id)} :
                /\ decisions' = st.decisions
                /\ interaction_history' = st.histories
                /\ rng' = st.rng
    /\ UNCHANGED <<num_rounds, provider, envVars, agentVars, policyVars, process_args, rules_config,
                   history_len, last_interactions, process_raised, process_calls,
                   pc, round_num, simulation_records, log_data, results, call, trace>>

GatherNext == GatherDecide
SpecGather == GatherInit /\ [][GatherNext]_vars

----------------------------------------------------------------------------
(* Properties of the Environment *)

InUnit(x) == 0 <= x /\ x <= One
InPercent(x) == 0 <= x /\ x <= Hundred

InfrastructureInBounds ==
    /\ \A a \in DOMAIN env.digital_infrastructure : InPercent(env.digital_infrastructure[a])
    /\ \A a \in DOMAIN env.physical_infrastructure : InPercent(env.physical_infrastructure[a])

\* C3: after any sequence of update calls from a configuration with levels in
\* [0,100], availability, load, every area's quality and both utilizations are
\* in [0,1], every infrastructure level is in [0,100], and update_count equals
\* the number of update calls made.
C3_UpdateKeepsBounds ==
    /\ InUnit(env.service_availability)
    /\ InUnit(env.system_load)
    /\ \A a \in QualityAreas : InUnit(env.service_quality[a])
    /\ InUnit(env.infrastructure_utilization.digital)
    /\ InUnit(env.infrastructure_utilization.physical)
    /\ InfrastructureInBounds
    /\ env.update_count = env_calls

\* three updates under rising load, the last one in an emergency
C3_Witness ==
    /\ env.update_count = 3
    /\ env.system_load > Scale(One, 8, 10)
    /\ env.emergency_status
    /\ env.service_availability < One

\* C4: after apply_policy_intervention with any signed delta, interleaved with
\* update calls in any order, every digital and physical level is in [0,100].
C4_PolicyKeepsInfrastructureInBounds ==
    policy_calls > 0 => InfrastructureInBounds

\* C5: in one update the emergency check either leaves the flag as it was, or
\* flips it; availability is multiplied by 0.7 exactly on a False-to-True
\* transition and is never multiplied when the flag was already True.
C5_ReductionOnlyOnEntry ==
    env_calls > 0 =>
        IF ~check_pre.emergency_status
        THEN \/ /\ ~env.emergency_status
                /\ env.service_availability = check_pre.service_availability
             \/ /\ env.emergency_status
                /\ env.service_availability = Scale(check_pre.service_availability, 7, 10)
        ELSE env.service_availability = check_pre.service_availability

----------------------------------------------------------------------------
(* Properties of the engines *)

InSatisfaction(x) == One <= x /\ x <= 5 * One

GovernmentInBounds ==
    /\ InUnit(agents.government.state.resource_utilization)
    /\ InPercent(agents.government.attributes.information_transparency)

EnterprisesInBounds ==
    \A i \in 1..Len(agents.enterprises) :
        /\ InPercent(agents.enterprises[i].state.innovation_level)
        /\ InUnit(agents.enterprises[i].state.market_share)
        /\ InPercent(agents.enterprises[i].attributes.data_usage_compliance)

ResidentsInBounds ==
    \A i \in 1..Len(agents.residents) :
        /\ InSatisfaction(agents.residents[i].state.satisfaction)
        /\ InPercent(agents.residents[i].attributes.trust_in_government)
        /\ InPercent(agents.residents[i].attributes.information_literacy)
        /\ InPercent(agents.residents[i].attributes.technology_acceptance)

\* C2: after any sequence of InteractionEngine.process and PolicyEngine.apply
\* calls on agents that started inside their bounds, satisfaction is in [1,5],
\* trust_in_government, innovation_level and every policy-adjusted attribute
\* are in [0,100], market_share and resource_utilization are in [0,1].
C2_AgentsStayInBounds ==
    GovernmentInBounds /\ EnterprisesInBounds /\ ResidentsInBounds

\* both engines have acted and the clamps were what held the values: a resident
\* sits at the top of satisfaction and of technology_acceptance and at the
\* bottom of trust, the government at the top of information_transparency
C2_Witness ==
    /\ process_calls > 0
    /\ apply_calls > 0
    /\ \E i \in 1..Len(agents.residents) :
           /\ agents.residents[i].state.satisfaction = 5 * One
           /\ agents.residents[i].attributes.trust_in_government = 0
           /\ agents.residents[i].attributes.technology_acceptance = Hundred
    /\ agents.government.state.resource_utilization = One

TypesIn(interactions) == {interactions[i].type : i \in 1..Len(interactions)}

\* C10: when the rule table lacks the rule of an interaction slot, process
\* returns normally (nothing is raised, the round is not aborted) and the
\* interactions it returns hold none of that slot's type.
C10_MissingRuleSkipsSlot ==
    process_calls > 0 =>
        /\ ~process_raised
        /\ "service_provision" \notin DOMAIN rules_config.government_resident
               => "service_provision" \notin TypesIn(last_interactions)
        /\ "procurement_cooperation" \notin DOMAIN rules_config.government_enterprise
               => "procurement_cooperation" \notin TypesIn(last_interactions)
        /\ "service_supply" \notin DOMAIN rules_config.enterprise_resident
               => "service_supply" \notin TypesIn(last_interactions)

\* a decision must at minimum be a mapping that carries action and target
IsMalformed(decision) ==
    ~decision.mapping \/ decision.action = "none" \/ decision.target = "none"

\* the interactions a decision of the agent gave rise to: its first participant
\* is the agent that acted
OriginatingFrom(agent_id, interactions) ==
    SelectSeq(interactions, LAMBDA i : i.participants[1] = agent_id)

\* C11: with a complete rule table, when a decision handed to process is
\* malformed (no action, no target, or no mapping), process returns normally,
\* no interaction originates from that decision, and the well-formed
\* decisions are still processed: a government's regulation reaches every
\* enterprise and a resident's feedback gets its demand_response.
C11_MalformedDecisionIsSkipped ==
    (process_calls > 0 /\ rules_config = FullRules) =>
        /\ ~process_raised
        /\ IsMalformed(decisions.government)
               => OriginatingFrom("government", last_interactions) = <<>>
        /\ \A i \in 1..Len(agents.enterprises) :
               IsMalformed(decisions.enterprises[i])
                   => OriginatingFrom(agents.enterprises[i].agent_id, last_interactions) = <<>>
        /\ \A i \in 1..Len(agents.residents) :
               IsMalformed(decisions.residents[i])
                   => OriginatingFrom(agents.residents[i].agent_id, last_interactions) = <<>>
        /\ decisions.government = Decision("regulation", "enterprises")
               => Len(OriginatingFrom("government", last_interactions))
                      = Len(agents.enterprises)
        /\ \A i \in 1..Len(agents.residents) :
               decisions.residents[i] = Decision("provide_feedback", "government")
                   => Len(OriginatingFrom(agents.residents[i].agent_id, last_interactions)) = 1

----------------------------------------------------------------------------
(* Properties of run_simulation *)

\* C1: once a round record is appended its contents never change: for every
\* record, the agents' states read through it and its environment snapshot
\* equal the values they had when the record was appended.
C1_RecordsNeverChange ==
    \A i \in 1..Len(simulation_records) :
        /\ ReadRecords(simulation_records, agents)[i].agents = trace.snapshots[i].agents
        /\ simulation_records[i].environment = trace.snapshots[i].environment

\* C6: whenever the provider fails in a decide call, by raising or by
\* unparsable output, the entry appended to the agent's interaction_history
\* has the fallback flag and the logged decision entry has is_fallback = true.
C6_ProviderFailureIsFlagged ==
    \A k \in 1..Len(trace.calls) :
        trace.calls[k].provider # "decision"
            => /\ trace.calls[k].has_fallback
               /\ trace.calls[k].logged => trace.calls[k].is_fallback

RecordedRounds == {simulation_records[i].round : i \in 1..Len(simulation_records)}

\* C7: a round in which an exception reached the round's handler has no
\* record; the records' round indices are strictly increasing; and in a run
\* without a user interrupt every round is started after a failure, the
\* records are exactly the rounds that did not fail, and the run ends with
\* the metrics computed and the results returned.
C7_FailedRoundsAreSkipped ==
    /\ RecordedRounds \cap trace.failed = {}
    /\ \A i, j \in 1..Len(simulation_records) :
           i < j => simulation_records[i].round < simulation_records[j].round
    /\ trace.interrupted = "no" =>
           /\ pc # "raised"
           /\ trace.failed \subseteq 0..(trace.started - 1)
           /\ pc \in {"metrics", "done"} =>
                  /\ trace.started = num_rounds
                  /\ RecordedRounds = (0..(num_rounds - 1)) \ trace.failed
           /\ pc = "done" => /\ results.raw_records = simulation_records
                             /\ log_data.errors # <<>> \/ trace.failed = {}

\* a run that is over, in which round 0 failed and round 1 was recorded
C7_Witness ==
    /\ pc = "done"
    /\ trace.interrupted = "no"
    /\ trace.failed = {0}
    /\ Len(simulation_records) = 1
    /\ simulation_records[1].round = 1
    /\ ~trace.metrics_raised
    /\ DOMAIN results.metrics = MetricKeys

\* C8: after a user interrupt during round k no further round is started,
\* the records are the rounds completed before it, and run_simulation
\* returns the metrics over them, a mapping with the five keys, without
\* raising.
C8_InterruptFinalizesMetrics ==
    trace.interrupted # "no" =>
        /\ pc # "raised"
        /\ trace.started <= trace.interrupt_round + 1
        /\ RecordedRounds \subseteq 0..trace.interrupt_round
        /\ (pc = "done" /\ ~trace.metrics_raised) => DOMAIN results.metrics = MetricKeys

\* C9: when the final metrics computation raises, run_simulation still
\* returns: the result's metrics mapping is empty and its raw_records are
\* the round records as they were when the loop ended, every one of them.
C9_MetricsFailureKeepsRecords ==
    trace.metrics_raised =>
        /\ pc = "done"
        /\ results.metrics = <<>>
        /\ Len(results.raw_records) = Len(trace.snapshots)
        /\ ReadRecords(results.raw_records, agents) = trace.at_loop_end

\* the metrics raised after two recorded rounds
C9_Witness ==
    /\ pc = "done"
    /\ trace.metrics_raised
    /\ Len(results.raw_records) = NumRounds
    /\ Len(trace.snapshots) = NumRounds

IsDegenerate == agents.enterprises = <<>> /\ agents.residents = <<>>

----------------------------------------------------------------------------
(* Properties of the last Environment.update: what it found is in check_pre *)

TaggedWith(area, interactions) ==
    \E k \in 1..Len(interactions) : interactions[k].area = area

\* C19: update changes the service_quality of an area only on the basis of
\* the interactions tagged with that area: an area none of the round's
\* interactions is tagged with keeps its quality, and an interaction without
\* an area tag changes no area's quality.
C19_QualityFollowsTaggedInteractions ==
    env_calls > 0 =>
        \A area \in QualityAreas :
            ~TaggedWith(area, check_pre.interactions) =>
                env.service_quality[area] = check_pre.service_quality[area]

\* the environment as _apply_random_changes found it in the last update
BeforeDrift ==
    [env EXCEPT !.digital_infrastructure = check_pre.digital_infrastructure,
                !.physical_infrastructure = check_pre.physical_infrastructure]

AllDrifts == [DOMAIN check_pre.digital_infrastructure -> DriftValues]

Clamped(level) == Max(0, Min(Hundred, level))

\* every digital entry is its old value plus its draw, clamped, times 0.98 in
\* an emergency; the draw is in [-1, 1] and the new value depends on it
DigitalDrifts ==
    \A a \in DOMAIN env.digital_infrastructure :
        /\ -One <= check_pre.drift[a] /\ check_pre.drift[a] <= One
        /\ env.digital_infrastructure[a] =
               IF env.emergency_status
               THEN Scale(Clamped(check_pre.digital_infrastructure[a]
                                      + check_pre.drift[a]), 98, 100)
               ELSE Clamped(check_pre.digital_infrastructure[a] + check_pre.drift[a])
        /\ \E d1, d2 \in AllDrifts :
               _apply_random_changes(BeforeDrift, d1).digital_infrastructure[a]
                   # _apply_random_changes(BeforeDrift, d2).digital_infrastructure[a]

\* the new value of every physical entry depends on what was drawn
PhysicalDrifts ==
    \A a \in DOMAIN env.physical_infrastructure :
        \E d1, d2 \in AllDrifts :
            _apply_random_changes(BeforeDrift, d1).physical_infrastructure[a]
                # _apply_random_changes(BeforeDrift, d2).physical_infrastructure[a]

\* C20: update adds a drift of at most 1 to every entry of
\* digital_infrastructure and of physical_infrastructure before clamping to
\* [0, 100] (so each entry's new value depends on what was drawn), and in an
\* emergency it then multiplies every digital entry by 0.98.
C20_EveryLevelDrifts ==
    env_calls > 0 => DigitalDrifts /\ PhysicalDrifts

----------------------------------------------------------------------------
(* Properties of PolicyEngine.apply.  apply_args holds the arguments of the *)
(* call as they were when it was made.                                      *)

Training == "digital_literacy_training"

\* the delta the policy table configures for information_literacy
TrainingDelta ==
    _parse_change_value(PoliciesConfig[Training].attribute_change[1][2])

LiteracyOf(resident) == resident.attributes.information_literacy

\* C13: after apply(["digital_literacy_training", "digital_literacy_training"])
\* a resident whose information_literacy L was below 70 at the call holds
\* min(100, L + 2d), d being the configured delta.
C13_TrainingTwiceAddsTwice ==
    (apply_calls > 0 /\ apply_args.policy_interventions = <<Training, Training>>) =>
        /\ ~apply_raised
        /\ \A i \in 1..Len(agents.residents) :
               LiteracyOf(apply_args.residents[i]) < LiteracyThreshold * One =>
                   LiteracyOf(agents.residents[i]) =
                       Min(Hundred, LiteracyOf(apply_args.residents[i]) + 2 * TrainingDelta)

\* the names of a list that the policy table knows, in the list's order
KnownOf(names) == SelectSeq(names, LAMBDA n : n \in DOMAIN PoliciesConfig)

RECURSIVE FirstOccurrences(_)
\* a list without the repeats of its names
FirstOccurrences(names) ==
    IF names = <<>> THEN <<>>
    ELSE LET front == FirstOccurrences(SubSeq(names, 1, Len(names) - 1))
             last == names[Len(names)]
         IN  IF \E k \in 1..Len(front) : front[k] = last THEN front
             ELSE Append(front, last)

NamesIn(names) == {names[k] : k \in 1..Len(names)}

Count(names, name) == Cardinality({k \in 1..Len(names) : names[k] = name})

Drive == "transparency_drive"
DriveDelta == _parse_change_value(PoliciesConfig[Drive].attribute_change[1][2])

C15_ApplyNeverRaises ==
    apply_calls > 0 =>
        /\ ~apply_raised
        /\ \A name \in NamesIn(apply_args.policy_interventions) \cap DOMAIN PoliciesConfig :
               name \in NamesIn(applied_policies)
        /\ NamesIn(apply_args.policy_interventions) \subseteq Misconfigured \cup {"unknown_policy"} =>
               /\ env = apply_args.env
               /\ agents = [government |-> apply_args.government,
                            enterprises |-> apply_args.enterprises,
                            residents |-> apply_args.residents]

\* the outcome InteractionEngine gives an interaction of the rule with draw u
RuleOutcome(rule_name, government, enterprise, u) ==
    LET rules == PairRules(rules_config, "government_enterprise")
    IN  CASE rule_name = "data_sharing" ->
                 _create_data_sharing_interaction(government, enterprise, rules, u).outcome
          [] rule_name = "regulation" ->
                 _create_regulation_interaction(government, enterprise, rules, u).outcome
          [] OTHER ->
                 _create_procurement_interaction(government, enterprise, rules, u).outcome

\* the government as it is before any rule_change is installed
Unmodified(government) == [government EXCEPT !.policy_modifiers = <<>>]

\* C16: once apply has installed a rule_change modifier for a rule, the
\* engine resolves interactions of that rule with the modified probability:
\* for some draw the outcome differs from the outcome without the modifier.
C16_ModifierChangesOutcomes ==
    \A key \in DOMAIN agents.government.policy_modifiers :
        \A i \in 1..Len(agents.enterprises) :
            \E u \in 0..(One - 1) :
                RuleOutcome(key[1], agents.government, agents.enterprises[i], u)
                    # RuleOutcome(key[1], Unmodified(agents.government),
                                  agents.enterprises[i], u)

----------------------------------------------------------------------------
(* Properties of the order of the statements of a round *)

\* the names of the steps of round r, in the order they returned
StepsOf(r) ==
    LET of_round == SelectSeq(trace.steps, LAMBDA s : s.round = r)
    IN  [k \in 1..Len(of_round) |-> of_round[k].step]

\* the agents whose decide call returned in round r, in call order
DecidersOf(r) ==
    LET of_round == SelectSeq(trace.calls, LAMBDA c : c.round = r)
    IN  [k \in 1..Len(of_round) |-> of_round[k].agent_id]

\* the roster in the order the loop asks for decisions
RosterOrder ==
    <<"government">>
        \o [i \in 1..Len(agents.enterprises) |-> agents.enterprises[i].agent_id]
        \o [i \in 1..Len(agents.residents) |-> agents.residents[i].agent_id]

\* C17: a round that appended a record ran get_context, one decision per
\* agent, process, update and the append, in this order and once each; a
\* step of a later round follows the append of the round before it or its
\* abandonment; the update_count of successive records strictly increases.
C17_RoundStepsInOrder ==
    /\ \A i \in 1..Len(simulation_records) :
           /\ StepsOf(simulation_records[i].round) =
                  <<"get_context">> \o [k \in 1..Len(RosterOrder) |-> "decide"]
                      \o <<"process", "update", "record">>
           /\ DecidersOf(simulation_records[i].round) = RosterOrder
    /\ \A k \in 1..(Len(trace.steps) - 1) :
           /\ trace.steps[k].round <= trace.steps[k + 1].round
           /\ trace.steps[k].round < trace.steps[k + 1].round =>
                  \/ trace.steps[k].step = "record"
                  \/ trace.steps[k].round \in trace.failed
    /\ \A i, j \in 1..Len(simulation_records) :
           i < j => simulation_records[i].environment.update_count
                        < simulation_records[j].environment.update_count

\* a run of two recorded rounds with a government, an enterprise and a resident
C17_Witness ==
    /\ pc = "done"
    /\ Len(RosterOrder) = 3
    /\ Len(simulation_records) = 2
    /\ simulation_records[1].environment.update_count = 1
    /\ simulation_records[2].environment.update_count = 2
    /\ Len(trace.steps) = 2 * (Len(RosterOrder) + 4)

----------------------------------------------------------------------------
(* Properties of the decision-gathering phase *)

AllDecided ==
    \A agent_id \in AgentIds(agents) : SlotOf(decisions, agents, agent_id) # Pending

\* the phase as run_simulation runs it: government, enterprises, residents
InRosterOrder ==
    GatherInOrder(Gathering(EmptyBatch(agents),
                            [id \in AgentIds(agents) |-> <<>>],
                            [stream |-> rng.stream, pos |-> 1]),
                  agents, provider, RosterOrder)

\* C18: whatever the order in which the decide calls of a round were made,
\* fallbacks included, the batch of decisions and every agent's
\* interaction_history are those of the roster order, and the Environment is
\* as it was.
C18_DecideOrderIsIrrelevant ==
    (pc = "gather" /\ AllDecided) =>
        /\ decisions = InRosterOrder.decisions
        /\ interaction_history = InRosterOrder.histories
        /\ env = GatherEnv

----------------------------------------------------------------------------
(* Properties of the state folding of InteractionEngine.process.            *)
(* process_args holds the agents as the call found them.                    *)

\* the state metrics of an agent with their bounds
RoleMetrics(role, agent) ==
    CASE role = "government" ->
             <<[value |-> agent.state.resource_utilization, low |-> 0, high |-> One]>>
      [] role = "enterprise" ->
             <<[value |-> agent.state.innovation_level, low |-> 0, high |-> Hundred],
               [value |-> agent.state.market_share, low |-> 0, high |-> One]>>
      [] OTHER ->
             <<[value |-> agent.state.satisfaction, low |-> One, high |-> 5 * One],
               [value |-> agent.attributes.trust_in_government, low |-> 0, high |-> Hundred]>>

\* the agent after the role's fold has taken one interaction
FoldOne(role, agent, interaction) ==
    CASE role = "government" -> _update_government_state(agent, <<interaction>>)
      [] role = "enterprise" -> _update_enterprise_state(agent, <<interaction>>)
      [] OTHER -> _update_resident_state(agent, <<interaction>>)

RaisedBy(role, agent, interaction) ==
    LET before == RoleMetrics(role, agent)
        after == RoleMetrics(role, FoldOne(role, agent, interaction))
    IN  \E k \in 1..Len(before) :
            after[k].value > before[k].value \/ before[k].value = before[k].high

LoweredBy(role, agent, interaction) ==
    LET before == RoleMetrics(role, agent)
        after == RoleMetrics(role, FoldOne(role, agent, interaction))
    IN  \E k \in 1..Len(before) :
            after[k].value < before[k].value \/ before[k].value = before[k].low

\* the agents of a roster with their roles
Members(roster) ==
    {[role |-> "government", agent |-> roster.government]}
        \cup {[role |-> "enterprise", agent |-> roster.enterprises[k]] :
                  k \in 1..Len(roster.enterprises)}
        \cup {[role |-> "resident", agent |-> roster.residents[k]] :
                  k \in 1..Len(roster.residents)}

IsParticipant(agent_id, interaction) ==
    \E k \in 1..Len(interaction.participants) : interaction.participants[k] = agent_id

\* C21: the folding treats the three roles alike: an interaction that came
\* out success raises a state metric of each of its participants (unless
\* one is at its upper bound), and an interaction that came out failed,
\* violation or ignored lowers a state metric of each of its participants
\* (unless one is at its lower bound).
C21_FoldingIsSymmetric ==
    (process_calls > 0 /\ ~process_raised) =>
        \A k \in 1..Len(last_interactions) :
            \A m \in Members(process_args) :
                IsParticipant(m.agent.agent_id, last_interactions[k]) =>
                    /\ last_interactions[k].outcome = "success" =>
                           RaisedBy(m.role, m.agent, last_interactions[k])
                    /\ last_interactions[k].outcome \in {"failed", "violation", "ignored"} =>
                           LoweredBy(m.role, m.agent, last_interactions[k])

\* the types of the Government-Enterprise interactions
GovEntTypes == {"procurement_cooperation", "regulation", "data_sharing",
                "project_bidding", "data_request"}

\* C22: the success threshold of a Government-Enterprise interaction is the
\* rule's probability times the action's factor: when the rule table gives
\* the Government-Enterprise rules the probability 0, no interaction of these
\* types comes out success or approved, whatever is drawn.
C22_ZeroProbabilityNeverSucceeds ==
    (process_calls > 0 /\ ~process_raised
         /\ rules_config.government_enterprise = Zeroed(FullRules.government_enterprise)) =>
        \A k \in 1..Len(last_interactions) :
            last_interactions[k].type \in GovEntTypes =>
                last_interactions[k].outcome \notin {"success", "approved"}

----------------------------------------------------------------------------
(* InteractionEngine.process on rosters larger than the samples it draws.   *)
(* The residents decide alike and the generator repeats one value, so that  *)
(* the results of a call on 21 residents stay enumerable.                   *)

MaxResidents == 21

RosterSizes == {0, 2, MaxServiceSample, MaxResidents}

\* the areas of a roster of n residents, alternating
AlternatingAreas(n) == [i \in 1..n |-> IF i % 2 = 1 THEN "core_area" ELSE "rural"]

ProvisionInit ==
    /\ \E agents_config \in AgentsConfigs, n \in RosterSizes :
           agents = create_agents(agents_config, "beijing", 1, AlternatingAreas(n))
    /\ rules_config \in RuleTables
    /\ history_len = 0
    /\ decisions = NoDecisions
    /\ last_interactions = <<>>
    /\ process_raised = FALSE
    /\ process_calls = 0
    /\ process_args = <<>>
    /\ NoPolicies
    /\ NoDriver
    /\ env = EnvironmentInit(CHOOSE config \in EnvConfigs : TRUE)
    /\ env_calls = 0
    /\ policy_calls = 0
    /\ check_pre = NoCheck

\* one call interaction_engine.process(government, enterprises, residents, ...)
ProvisionRound ==
    /\ process_calls < MaxProcessCalls
    /\ \E g \in GovDecisions,
          e \in [1..Len(agents.enterprises) -> EntDecisions],
          d \in ResDecisions,
          u \in DrawValues :
          \E result \in process(agents.government, agents.enterprises, agents.residents,
                                g, e, [i \in 1..Len(agents.residents) |-> d],
                                rules_config, SameDraws(u)) :
              /\ agents' = result.agents
              /\ last_interactions' = result.interactions
              /\ process_raised' = result.raised
              /\ history_len' = history_len + Len(result.interactions)
              /\ decisions' = [government |-> g, enterprises |-> e,
                               residents |-> [i \in 1..Len(agents.residents) |-> d]]
    /\ process_args' = agents
    /\ process_calls' = process_calls + 1
    /\ UNCHANGED <<runVars, rules_config, envVars, policyVars, driverVars>>

SpecProvision == ProvisionInit /\ [][ProvisionRound]_vars

\* the service_provision interactions of a list, in order
ProvisionOf(interactions) ==
    SelectSeq(interactions, LAMBDA i : i.type = "service_provision")

----------------------------------------------------------------------------
(* The metrics calculators called on their own, each on arguments drawn     *)
(* from a small set.  Records and interactions are dictionaries: a key one  *)
(* does not carry is absent from its domain.                                *)

IsServiceRequest(r) == AttributeOr(r, "type", "none") = "service_request"

\* metrics/efficiency.py calculate_efficiency: the two keys computed from the
\* service requests (resource_utilization and policy_cost come from two other
\* calculators)
calculate_efficiency(interaction_records) ==
    LET service_requests == SelectSeq(interaction_records, IsServiceRequest)
    IN  IF interaction_records = <<>>
        THEN [avg_response_time |-> 0, resolution_rate |-> 0]
        ELSE IF service_requests = <<>>
        THEN [avg_response_time |-> Mean(<<One>>), resolution_rate |-> Mean(<<One \div 2>>)]
        ELSE [avg_response_time |->
                  Mean([k \in 1..Len(service_requests) |->
                           AttributeOr(service_requests[k], "response_time", One)]),
              resolution_rate |->
                  Mean([k \in 1..Len(service_requests) |->
                           IF AttributeOr(service_requests[k], "resolved", FALSE)
                           THEN One ELSE 0])]

\* the score calculate_cooperation_index gives one interaction
CooperationScore(interaction) ==
    LET outcome == AttributeOr(interaction, "outcome", "neutral")
        interaction_type == AttributeOr(interaction, "type", "")
        score == CASE outcome \in {"success", "mutual_benefit", "win_win"} -> One
                   [] outcome \in {"partial_success", "compromise"} -> Scale(One, 7, 10)
                   [] outcome \in {"neutral", "no_change"} -> Scale(One, 5, 10)
                   [] outcome \in {"conflict", "failed"} -> Scale(One, 1, 10)
                   [] OTHER -> Scale(One, 5, 10)
    IN  IF interaction_type \in {"data_sharing", "joint_project", "collaboration",
                                 "partnership", "mutual_support"}
        THEN Min(One, score + Scale(One, 2, 10))
        ELSE score

\* the scores of a list of interactions, in order
CooperationScores(interactions) ==
    [k \in 1..Len(interactions) |-> CooperationScore(interactions[k])]

\* metrics/collaboration.py calculate_cooperation_index
calculate_cooperation_index(records) ==
    IF records = <<>> THEN 0
    ELSE Mean([k \in 1..Len(records) |->
                  IF records[k].interactions = <<>> THEN Scale(One, 5, 10)
                  ELSE Mean(CooperationScores(records[k].interactions))])

\* metrics/collaboration.py calculate_collaboration: its cooperation_index
calculate_collaboration(records) ==
    IF records = <<>> THEN [cooperation_index |-> 0]
    ELSE [cooperation_index |-> calculate_cooperation_index(records)]

MaxRequests == 3
MaxValues == 3
MaxShortHistory == 2
MaxHistory == 12

\* the sequences over a set of at most n elements
SeqsUpTo(set, n) == UNION {[1..k -> set] : k \in 0..n}

\* interaction dictionaries with and without the keys calculate_efficiency reads
RequestKinds ==
    {[type |-> "service_request", response_time |-> 2 * One, resolved |-> TRUE],
     [type |-> "service_request", response_time |-> One \div 2, resolved |-> FALSE],
     [type |-> "service_request"],
     [type |-> "service_provision", response_time |-> 3 * One, resolved |-> TRUE]}

\* a round record: the keys the calculators read
HistoryRecord(service_availability, satisfaction, interactions) ==
    [environment |-> [service_availability |-> service_availability],
     agents |-> [residents |-> <<[satisfaction |-> satisfaction]>>],
     interactions |-> interactions]

Succeeded == Interaction("service_provision", <<"government", "resident_0">>,
                         "success", "core_area", "digital")
Failed == Interaction("service_provision", <<"government", "resident_0">>,
                      "failed", "core_area", "digital")
Emergency == Interaction("emergency_response", <<"government", "resident_0">>,
                         "success", "core_area", "none")

\* records of calm and of troubled rounds
RecordKinds ==
    {HistoryRecord(One, 3 * One, <<>>),
     HistoryRecord(One, 3 * One, <<Succeeded>>),
     HistoryRecord(Scale(One, 5, 10), 4 * One, <<Failed, Failed>>),
     HistoryRecord(Scale(One, 5, 10), 2 * One, <<Emergency, Failed>>)}

\* the records of histories long enough for the first and last third
PeriodKinds == {HistoryRecord(One, 3 * One, <<Succeeded>>),
                HistoryRecord(One, 3 * One, <<Failed>>)}

GiniValues == {-One, 0, One, 3 * One, 7 * One}

CalculatorCall(function, argument) ==
    [function |-> function, argument |-> argument, returned |-> FALSE, value |-> <<>>]

CalculatorCalls ==
    {CalculatorCall("calculate_efficiency", l) : l \in SeqsUpTo(RequestKinds, MaxRequests)}
    \cup {CalculatorCall("calculate_resilience", l) : l \in SeqsUpTo(RecordKinds, MaxShortHistory)}
    \cup {CalculatorCall("calculate_collaboration", l) : l \in SeqsUpTo(RecordKinds, MaxShortHistory)}
    \cup {CalculatorCall("calculate_gini", l) : l \in SeqsUpTo(GiniValues, MaxValues)}
    \cup {CalculatorCall("calculate_adaptive_capacity", l) :
              l \in UNION {[1..n -> PeriodKinds] : n \in (MaxHistory - 3)..MaxHistory}}

CalculatorsInit ==
    /\ call \in CalculatorCalls
    /\ NoAgents
    /\ NoEngine
    /\ NoPolicies
    /\ pc = "none"
    /\ round_num = 0
    /\ simulation_records = <<>>
    /\ interaction_history = <<>>
    /\ log_data = <<>>
    /\ results = <<>>
    /\ trace = <<>>
    /\ num_rounds = 0
    /\ rng = NoDraws
    /\ provider = <<>>
    /\ env = EnvironmentInit(CHOOSE config \in EnvConfigs : TRUE)
    /\ env_calls = 0
    /\ policy_calls = 0
    /\ check_pre = NoCheck

\* the pending call of the named calculator returns value
Return(function, value) ==
    /\ call.function = function
    /\ ~call.returned
    /\ call' = [call EXCEPT !.returned = TRUE, !.value = value]
    /\ UNCHANGED <<runVars, envVars, agentVars, engineVars, policyVars, pc, round_num,
                   simulation_records, interaction_history, log_data, results, trace>>

CallEfficiency == Return("calculate_efficiency", calculate_efficiency(call.argument))
CallResilience == Return("calculate_resilience", calculate_resilience(call.argument))
CallCollaboration == Return("calculate_collaboration", calculate_collaboration(call.argument))
CallGini == Return("calculate_gini", calculate_gini(call.argument))
CallAdaptiveCapacity ==
    Return("calculate_adaptive_capacity", calculate_adaptive_capacity(call.argument))

CalculatorsNext ==
    CallEfficiency \/ CallResilience \/ CallCollaboration \/ CallGini \/ CallAdaptiveCapacity

SpecCalculators == CalculatorsInit /\ [][CalculatorsNext]_vars

\* the named calculator has returned
Returned(function) == call.function = function /\ call.returned

\* C24: calculate_efficiency returns avg_response_time = 1.0 and
\* resolution_rate = 0.5 on every interaction list without a service_request
\* interaction, the empty list included, and the means over the
\* service_request interactions otherwise.
C24_EfficiencyDefaults ==
    Returned("calculate_efficiency") =>
        LET service_requests == SelectSeq(call.argument, IsServiceRequest)
        IN  IF service_requests = <<>>
            THEN /\ call.value.avg_response_time = One
                 /\ call.value.resolution_rate = One \div 2
            ELSE /\ call.value.avg_response_time =
                        Mean([k \in 1..Len(service_requests) |->
                                 AttributeOr(service_requests[k], "response_time", One)])
                 /\ call.value.resolution_rate =
                        Mean([k \in 1..Len(service_requests) |->
                                 IF AttributeOr(service_requests[k], "resolved", FALSE)
                                 THEN One ELSE 0])

\* the interactions of a history are free of emergency responses
NoEmergency(records) == SelectSeq(AllInteractions(records), IsEmergencyResponse) = <<>>

\* C25: calculate_resilience returns system_recovery_speed = 0.8 on every
\* record list without an emergency_response interaction and
\* stability_index = 1.0 on every record list of fewer than 2 records, the
\* empty record list included in both.
C25_ResilienceDefaults ==
    Returned("calculate_resilience") =>
        /\ NoEmergency(call.argument) =>
               call.value.system_recovery_speed = Scale(One, 8, 10)
        /\ Len(call.argument) < 2 => call.value.stability_index = One

\* C26: on a history of n >= 10 records calculate_adaptive_capacity
\* returns 0.5 + late - early clamped to [0, 1], where early and late are
\* the mean success rates of the first floor(n/3) and of the final
\* floor(n/3) records; on a shorter history it returns 0.5.
C26_ThirdsOfEqualLength ==
    Returned("calculate_adaptive_capacity") =>
        LET n == Len(call.argument)
            early == SubSeq(call.argument, 1, n \div 3)
            late == SubSeq(call.argument, n - (n \div 3) + 1, n)
        IN  IF n >= 10
            THEN call.value = Max(0, Min(One, One \div 2
                                  + calculate_period_efficiency(late)
                                  - calculate_period_efficiency(early)))
            ELSE call.value = One \div 2

\* C27: calculate_gini returns 0 on every input whose values are all equal
\* and on every input of fewer than 2 values, returns 1/2 on every input
\* [0, x] with x > 0, and returns a value in [0, 1] on every input of
\* non-negative numbers.
C27_GiniRange ==
    Returned("calculate_gini") =>
        LET values == call.argument
        IN  /\ (Len(values) < 2 \/ \A k \in 1..Len(values) : values[k] = values[1])
                   => call.value = 0
            /\ (Len(values) = 2 /\ values[1] = 0 /\ values[2] > 0)
                   => call.value = One \div 2
            /\ (\A k \in 1..Len(values) : values[k] >= 0)
                   => (call.value >= 0 /\ call.value <= One)

\* the coefficient of [0, x] was computed
C27_Witness ==
    /\ Returned("calculate_gini")
    /\ Len(call.argument) = 2
    /\ call.argument[1] = 0
    /\ call.argument[2] > 0
    /\ call.value = One \div 2

\* two numbers that differ by rounding at most
Near(a, b) == a - b \in -2..2

\* C28: the cooperation_index calculate_collaboration returns is the mean of
\* the cooperation scores of all interactions of all rounds, each
\* interaction weighing the same whatever the size of its round.
C28_EveryInteractionWeighsTheSame ==
    (Returned("calculate_collaboration") /\ AllInteractions(call.argument) # <<>>) =>
        Near(call.value.cooperation_index,
             Mean(CooperationScores(AllInteractions(call.argument))))

----------------------------------------------------------------------------
(* Properties of the dynamic log *)

\* every round of the run was completed and recorded
EveryRoundCompleted ==
    /\ pc = "done"
    /\ trace.failed = {}
    /\ trace.interrupted = "no"
    /\ Len(simulation_records) = num_rounds

\* C29: what the driver logs for round r is stored in the log entry whose
\* round field is r: after a run in which every round completed, each entry
\* with round >= 0 has status completed and holds the decisions and the
\* interactions of that round, and the initialization entry (round -1)
\* holds none.
C29_LogEntryHoldsItsRound ==
    EveryRoundCompleted =>
        \A k \in 1..Len(log_data.rounds) :
            LET entry == log_data.rounds[k]
            IN  IF entry.round >= 0
                THEN /\ entry.status = "completed"
                     /\ entry.decisions # <<>>
                     /\ entry.interactions = simulation_records[entry.round + 1].interactions
                ELSE /\ entry.status = "in_progress"
                     /\ entry.decisions = <<>>
                     /\ entry.interactions = <<>>

----------------------------------------------------------------------------
(* What process leaves alone *)

\* agent_id is a participant of no interaction of the last call
Uninvolved(agent_id) ==
    \A k \in 1..Len(last_interactions) : ~IsParticipant(agent_id, last_interactions[k])

\* after differs from before in its state and attributes at most
OnlyStateAndAttributes(before, after) ==
    [after EXCEPT !.state = before.state, !.attributes = before.attributes] = before

\* C30: process changes the state and attributes only of agents that are a
\* participant of an interaction generated by that call: every enterprise
\* and resident in no interaction, and the government when no interaction
\* lists it, is after process exactly as before, and no agent's id, area or
\* anything else but its state and attributes is changed.
C30_ProcessTouchesParticipantsOnly ==
    process_calls > 0 =>
        /\ Len(agents.enterprises) = Len(process_args.enterprises)
        /\ Len(agents.residents) = Len(process_args.residents)
        /\ OnlyStateAndAttributes(process_args.government, agents.government)
        /\ Uninvolved("government") => agents.government = process_args.government
        /\ \A i \in 1..Len(agents.enterprises) :
               /\ OnlyStateAndAttributes(process_args.enterprises[i], agents.enterprises[i])
               /\ Uninvolved(process_args.enterprises[i].agent_id)
                      => agents.enterprises[i] = process_args.enterprises[i]
        /\ \A i \in 1..Len(agents.residents) :
               /\ OnlyStateAndAttributes(process_args.residents[i], agents.residents[i])
               /\ Uninvolved(process_args.residents[i].agent_id)
                      => agents.residents[i] = process_args.residents[i]

\* a call changed a resident it served and left alone one it did not serve
C30_Witness ==
    /\ process_calls > 0
    /\ ~process_raised
    /\ \E i, j \in 1..Len(agents.residents) :
           /\ ~Uninvolved(process_args.residents[i].agent_id)
           /\ agents.residents[i] # process_args.residents[i]
           /\ Uninvolved(process_args.residents[j].agent_id)
           /\ agents.residents[j] = process_args.residents[j]
    /\ Uninvolved(process_args.enterprises[1].agent_id)

====
